---- MODULE Spec2Model ----
(***************************************************************************)
(* Billing application: the bill aggregate builder of                      *)
(* EnhancedBillingProvider (src/src/index.css, lines 115-673), the NewBill *)
(* page that drives it (src/src/pages/NewBill.tsx) and the bill total      *)
(* calculator calculateBillTotals.                                         *)
(*                                                                         *)
(* Money is modelled by integers.  The input sets below are multiples of   *)
(* ten and the percentages are multiples of ten, so every division by 100  *)
(* the code performs is exact and IEEE double arithmetic agrees with the   *)
(* integer arithmetic used here.                                           *)
(***************************************************************************)
EXTENDS Integers, Sequences, FiniteSets, TLC

(***************************************************************************)
(* Bounds of the model.                                                    *)
(***************************************************************************)
\* longest item list handed to calculateBillTotals in SpecCalc
MaxLen == 3

(***************************************************************************)
(* Bill items.  A JavaScript array slot is an item, an empty slot (a hole  *)
(* left by an assignment past the end of the array) or, after the array    *)
(* was copied with the spread operator, the value undefined.               *)
(***************************************************************************)
NoProduct == 0

Item(p, q, up, dt, dv, sub, da, tot) ==
    [kind |-> "item", product |-> p, quantity |-> q, unitPrice |-> up,
     discountType |-> dt, discountValue |-> dv,
     subtotal |-> sub, discountAmount |-> da, total |-> tot]

Hole == [kind |-> "hole", product |-> NoProduct, quantity |-> 0, unitPrice |-> 0,
         discountType |-> "fixed", discountValue |-> 0,
         subtotal |-> 0, discountAmount |-> 0, total |-> 0]

Undefined == [Hole EXCEPT !.kind = "undefined"]

Min(a, b) == IF a <= b THEN a ELSE b

Max(a, b) == IF a >= b THEN a ELSE b

\* Array.prototype.reduce((sum, item) => sum + f(item), 0): empty slots are
\* skipped.  Callers establish that no slot holds undefined (see reduceThrows).
RECURSIVE SumSubtotal(_)
SumSubtotal(items) ==
    IF items = << >> THEN 0
    ELSE (IF Head(items).kind = "item" THEN Head(items).subtotal ELSE 0)
         + SumSubtotal(Tail(items))

RECURSIVE SumDiscountAmount(_)
SumDiscountAmount(items) ==
    IF items = << >> THEN 0
    ELSE (IF Head(items).kind = "item" THEN Head(items).discountAmount ELSE 0)
         + SumDiscountAmount(Tail(items))

\* the reduce callback reads item.subtotal: a slot holding undefined raises
\* a TypeError
reduceThrows(items) == \E i \in 1..Len(items) : items[i].kind = "undefined"

(***************************************************************************)
(* calculateBillTotals, src/src/index.css lines 500-523.                   *)
(* billDiscountType "none" stands for an absent (undefined) type.          *)
(***************************************************************************)
\* the bill discount with a percentage taken as an amount
billDiscountAmountOf_PercentageAsAmount(base, billDiscountType, billDiscountValue) ==
    IF billDiscountType # "none" /\ billDiscountValue # 0 /\ billDiscountValue > 0
    THEN Min(billDiscountValue, base)
    ELSE 0

billDiscountAmountOf(base, billDiscountType, billDiscountValue) ==
    IF billDiscountType # "none" /\ billDiscountValue # 0 /\ billDiscountValue > 0
    THEN IF billDiscountType = "fixed"
         THEN Min(billDiscountValue, base)
         ELSE (base * Min(billDiscountValue, 100)) \div 100
    ELSE 0

\* calculateBillTotals returning the raw difference (no Math.max)
calculateBillTotals_NoFloor(items, billDiscountType, billDiscountValue) ==
    LET subtotal == SumSubtotal(items)
        itemDiscounts == SumDiscountAmount(items)
        billDiscountAmount ==
            billDiscountAmountOf(subtotal - itemDiscounts,
                                 billDiscountType, billDiscountValue)
        totalDiscount == itemDiscounts + billDiscountAmount
    IN  [subtotal |-> subtotal,
         totalDiscount |-> totalDiscount,
         billDiscountAmount |-> billDiscountAmount,
         total |-> subtotal - totalDiscount]

\* calculateBillTotals taking the bill discount on the raw subtotal
calculateBillTotals_RawSubtotalBase(items, billDiscountType, billDiscountValue) ==
    LET subtotal == SumSubtotal(items)
        itemDiscounts == SumDiscountAmount(items)
        billDiscountAmount ==
            billDiscountAmountOf(subtotal, billDiscountType, billDiscountValue)
        totalDiscount == itemDiscounts + billDiscountAmount
    IN  [subtotal |-> subtotal,
         totalDiscount |-> totalDiscount,
         billDiscountAmount |-> billDiscountAmount,
         total |-> Max(0, subtotal - totalDiscount)]

\* calculateBillTotals leaving the bill discount out of the total
calculateBillTotals_TotalSkipsBillDiscount(items, billDiscountType, billDiscountValue) ==
    LET subtotal == SumSubtotal(items)
        itemDiscounts == SumDiscountAmount(items)
        billDiscountAmount ==
            billDiscountAmountOf(subtotal - itemDiscounts,
                                 billDiscountType, billDiscountValue)
    IN  [subtotal |-> subtotal,
         totalDiscount |-> itemDiscounts + billDiscountAmount,
         billDiscountAmount |-> billDiscountAmount,
         total |-> Max(0, subtotal - itemDiscounts)]

calculateBillTotals(items, billDiscountType, billDiscountValue) ==
    LET subtotal == SumSubtotal(items)
        itemDiscounts == SumDiscountAmount(items)
        billDiscountAmount ==
            billDiscountAmountOf(subtotal - itemDiscounts,
                                 billDiscountType, billDiscountValue)
        totalDiscount == itemDiscounts + billDiscountAmount
        total == subtotal - totalDiscount
    IN  [subtotal |-> subtotal,
         totalDiscount |-> totalDiscount,
         billDiscountAmount |-> billDiscountAmount,
         total |-> Max(0, total)]

NoTotals == [subtotal |-> 0, totalDiscount |-> 0, billDiscountAmount |-> 0, total |-> 0]

(***************************************************************************)
(* Inputs of the calculator specification.                                 *)
(***************************************************************************)
\* (subtotal, discountAmount) pairs: the last one is an ill-constructed item
\* whose discount exceeds its subtotal
CalcItemPool ==
    { Item(1, 3, 100, "fixed", 50, 300, 50, 250),
      Item(1, 1, 100, "fixed", 0, 100, 0, 100),
      Item(1, 1, 100, "percentage", 100, 100, 100, 0),
      Item(1, 1, 10, "fixed", 30, 10, 30, -20) }

RECURSIVE SeqsUpTo(_, _)
SeqsUpTo(S, n) ==
    IF n = 0 THEN { << >> }
    ELSE LET shorter == SeqsUpTo(S, n - 1)
         IN  shorter \cup { Append(s, x) : s \in { t \in shorter : Len(t) = n - 1 }, x \in S }

CalcDiscountTypes == {"fixed", "percentage", "none"}

CalcDiscountValues == {-10, 0, 50, 150, 400}

(***************************************************************************)
(* Bounds and input sets of the application specifications.                *)
(***************************************************************************)
\* longest item list of a draft
MaxItems == 2

\* number of drafts initNewBill may create (identities 1..MaxDrafts)
MaxDrafts == 1

\* number of createUserBill requests that may be in flight together
MaxPending == 2

Customers == {1}

\* product catalog: product id -> unitPrice (product 2 carries no price)
CatalogIds == {1, 2}

CatalogPrice(p) == IF p = 1 THEN 100 ELSE 0

\* values a user can submit through BillItemForm
FormQuantities == {3}

FormDiscounts == { <<"fixed", 50>>, <<"percentage", 100>> }

\* values a user can submit through BillDiscountForm
BillDiscounts == { <<"fixed", 400>>, <<"percentage", 10>> }

\* items a direct caller of the builder may pass: any BillItem the type
\* admits, including ill-constructed ones
BuilderItemPool ==
    { Item(1, 3, 100, "fixed", 50, 300, 50, 250),
      Item(1, 1, 10, "fixed", 30, 10, 30, -20) }

(***************************************************************************)
(* Bills.  NoBill stands for currentBill = null.                           *)
(***************************************************************************)
NoBill ==
    [id |-> 0, billNumber |-> 0, customer |-> 0, items |-> << >>,
     subtotal |-> 0, totalDiscount |-> 0,
     billDiscountType |-> "fixed", billDiscountValue |-> 0,
     billDiscountAmount |-> 0, total |-> 0]

withTotals(bill, totals) ==
    [bill EXCEPT !.subtotal = totals.subtotal,
                 !.totalDiscount = totals.totalDiscount,
                 !.billDiscountAmount = totals.billDiscountAmount,
                 !.total = totals.total]

\* [...items]: the array iterator yields undefined for an empty slot
spread(items) ==
    [i \in 1..Len(items) |-> IF items[i].kind = "hole" THEN Undefined ELSE items[i]]

\* newItems[index] = item (index is the 0-based JavaScript index): an
\* assignment past the end lengthens the array and leaves empty slots
assignAt(items, index, item) ==
    [i \in 1..Max(Len(items), index + 1) |->
        IF i = index + 1 THEN item
        ELSE IF i <= Len(items) THEN items[i]
        ELSE Hole]

\* items.filter((_, i) => i !== index): filter skips empty slots and returns
\* a dense array
RECURSIVE filterOut(_, _, _)
filterOut(items, index, i) ==
    IF i > Len(items) THEN << >>
    ELSE IF items[i].kind = "hole" \/ i = index + 1
         THEN filterOut(items, index, i + 1)
         ELSE <<items[i]>> \o filterOut(items, index, i + 1)

\* initNewBill, src/src/index.css lines 430-444
initNewBill(customer, id) ==
    [id |-> id, billNumber |-> id, customer |-> customer, items |-> << >>,
     subtotal |-> 0, totalDiscount |-> 0,
     billDiscountType |-> "fixed", billDiscountValue |-> 0,
     billDiscountAmount |-> 0, total |-> 0]

\* addItemToBill, lines 446-457: the new value of currentBill; the bill is
\* returned unchanged when the function returns early or raises
addItemToBillThrows(bill, item) ==
    bill # NoBill /\ reduceThrows(Append(spread(bill.items), item))

\* addItemToBill adding the new item's amounts to the stored totals
addItemToBill_Incremental(bill, item) ==
    IF bill = NoBill THEN bill
    ELSE LET newItems == Append(spread(bill.items), item)
         IN  IF reduceThrows(newItems) THEN bill
             ELSE [bill EXCEPT !.items = newItems,
                               !.subtotal = bill.subtotal + item.subtotal,
                               !.totalDiscount = bill.totalDiscount + item.discountAmount,
                               !.total = Max(0, bill.total + item.subtotal - item.discountAmount)]

addItemToBill(bill, item) ==
    IF bill = NoBill THEN bill
    ELSE LET newItems == Append(spread(bill.items), item)
         IN  IF reduceThrows(newItems) THEN bill
             ELSE withTotals([bill EXCEPT !.items = newItems],
                     calculateBillTotals(newItems, bill.billDiscountType,
                                         bill.billDiscountValue))

\* updateBillItem, lines 459-472
updateBillItemThrows(bill, index, item) ==
    bill # NoBill /\ reduceThrows(assignAt(spread(bill.items), index, item))

updateBillItem(bill, index, item) ==
    IF bill = NoBill THEN bill
    ELSE LET newItems == assignAt(spread(bill.items), index, item)
         IN  IF reduceThrows(newItems) THEN bill
             ELSE withTotals([bill EXCEPT !.items = newItems],
                     calculateBillTotals(newItems, bill.billDiscountType,
                                         bill.billDiscountValue))

\* removeBillItem, lines 474-485
removeBillItem(bill, index) ==
    IF bill = NoBill THEN bill
    ELSE LET newItems == filterOut(bill.items, index, 1)
         IN  withTotals([bill EXCEPT !.items = newItems],
                 calculateBillTotals(newItems, bill.billDiscountType,
                                     bill.billDiscountValue))

\* updateBillDiscount writing a filtered copy of the items
updateBillDiscount_RebuildsItems(bill, discountType, discountValue) ==
    IF bill = NoBill THEN bill
    ELSE withTotals([bill EXCEPT !.billDiscountType = discountType,
                                 !.billDiscountValue = discountValue,
                                 !.items = filterOut(bill.items, Len(bill.items) - 1, 1)],
             calculateBillTotals(bill.items, discountType, discountValue))

\* updateBillDiscount, lines 487-498
updateBillDiscount(bill, discountType, discountValue) ==
    IF bill = NoBill THEN bill
    ELSE withTotals([bill EXCEPT !.billDiscountType = discountType,
                                 !.billDiscountValue = discountValue],
             calculateBillTotals(bill.items, discountType, discountValue))

(***************************************************************************)
(* BillItemForm (src/src/components/CustomersList.tsx lines 129-239) and   *)
(* the calculators it imports from utils/calculations.                     *)
(***************************************************************************)
validateQuantity(quantity) == quantity > 0

validateDiscount(discountValue, discountType) ==
    /\ discountValue >= 0
    /\ discountType = "percentage" => discountValue <= 100

calculateItemSubtotal(unitPrice, quantity) == unitPrice * quantity

calculateItemDiscount(subtotal, discountType, discountValue) ==
    IF discountType = "fixed" THEN Min(discountValue, subtotal)
    ELSE (subtotal * Min(discountValue, 100)) \div 100

calculateItemTotal(subtotal, discountAmount) == subtotal - discountAmount

\* the item handleSubmit passes to onSave, lines 213-239; the derived fields
\* are those of the recompute effect, lines 155-169
billItemOf(product, unitPrice, quantity, discountType, discountValue) ==
    LET subtotal == calculateItemSubtotal(unitPrice, quantity)
        discountAmount == calculateItemDiscount(subtotal, discountType, discountValue)
    IN  Item(product, quantity, unitPrice, discountType, discountValue,
             subtotal, discountAmount, calculateItemTotal(subtotal, discountAmount))

BillItemFormSubmit(product, quantity, discountType, discountValue) ==
    billItemOf(product, CatalogPrice(product), quantity, discountType, discountValue)

\* a || b on numbers
OrElse(a, b) == IF a # 0 THEN a ELSE b

\* handleSaveItem, src/src/pages/NewBill.tsx lines 141-155: the message of
\* the validation that rejects the item, "" when it passes
saveItemRejection(item) ==
    IF item.product = NoProduct THEN "Invalid product data"
    ELSE IF item.quantity = 0 \/ item.quantity <= 0 THEN "Quantity must be greater than 0"
    ELSE IF item.unitPrice = 0 \/ item.unitPrice <= 0 THEN "Unit price must be greater than 0"
    ELSE ""

\* handleSaveItem, lines 157-170
completeItem(item) ==
    [item EXCEPT !.subtotal = OrElse(item.subtotal, item.quantity * item.unitPrice),
                 !.total = OrElse(item.total, item.subtotal - OrElse(item.discountAmount, 0)),
                 !.discountAmount = OrElse(item.discountAmount, 0),
                 !.discountValue = OrElse(item.discountValue, 0)]

\* handleFinalizeBill, lines 207-225: the message of the check that stops
\* the finalize, "" when the bill goes on to saveBill.  filter skips empty
\* slots.
finalizeRejection(bill) ==
    IF bill = NoBill THEN "No bill to save"
    ELSE IF Len(bill.items) = 0 THEN "Please add at least one item to the bill"
    ELSE IF \E i \in 1..Len(bill.items) :
                /\ bill.items[i].kind # "hole"
                /\ \/ bill.items[i].product = NoProduct
                   \/ bill.items[i].quantity = 0
                   \/ bill.items[i].unitPrice = 0
         THEN "Some items have invalid data. Please check all items."
    ELSE ""

\* the Finalize Bill button, lines 560-571: disabled attribute
finalizeDisabled(bill, saving) ==
    bill = NoBill \/ Len(bill.items) = 0 \/ saving

(***************************************************************************)
(* State.                                                                  *)
(***************************************************************************)
VARIABLES
    currentBill,          \* provider: the draft, NoBill for null
    bills,                \* provider: the bill history
    nextId,               \* next identity uuidv4 / generateBillNumber hands out
    pending,              \* saveBill calls awaiting the data service
    saveBillToast,        \* last toast of saveBill
    route,                \* the routed page: "new-bill", "bill-history", "other"
    isSaving,             \* NewBill local state
    showProductSelection, \* NewBill local state
    showAddItem,          \* NewBill local state
    selectedProduct,      \* NewBill local state, NoProduct for null
    editingItemIndex,     \* NewBill local state, NoIndex for null
    finalizeToast,        \* last toast of handleFinalizeBill
    effect,               \* NewBill: the cleanup its effect has registered
    itemForm,             \* the state of the BillItemForm instance
    words,                \* numberToWords: its argument and its result
    render,               \* the PDF renderer: its arguments and its results
    catalog,              \* provider: the products, the data service's copy of
                          \* them and the product requests awaiting the service
    report,               \* what the last call of a draft operation gave its caller
    account,              \* provider: the session, the customers, the data service's
                          \* bills and customers, and the requests for them in flight
    showAddCustomer,      \* NewBill local state
    calcItems, calcType, calcValue, calcResult, calcDone

NoIndex == -1

providerVars == <<currentBill, bills, nextId, pending, saveBillToast>>

pageVars == <<route, isSaving, showProductSelection, showAddItem, selectedProduct,
              editingItemIndex, finalizeToast>>

formVars == <<showProductSelection, showAddItem, selectedProduct, editingItemIndex>>

calcVars == <<calcItems, calcType, calcValue, calcResult, calcDone>>

effectVars == <<effect>>

itemFormVars == <<itemForm>>

rendererVars == <<words, render>>

catalogVars == <<catalog>>

callVars == <<report>>

accountVars == <<account, showAddCustomer>>

vars == <<currentBill, bills, nextId, pending, saveBillToast,
          route, isSaving, showProductSelection, showAddItem, selectedProduct,
          editingItemIndex, finalizeToast, effect, itemForm, words, render, catalog, report, account, showAddCustomer,
          calcItems, calcType, calcValue, calcResult, calcDone>>

\* no product, on the page or on the data service, and no request in flight
NoCatalog == [products |-> << >>, store |-> << >>, requests |-> << >>, now |-> 1, nextId |-> 1]

\* the user is signed in and the data is loaded: the customers of the page
\* are those of the data service, which holds no bill yet; no request is in
\* flight and no toast was raised
LoadedAccount ==
    [isAuthenticated |-> TRUE, customers |-> <<1>>, store |-> << >>,
     customerStore |-> <<1>>, requests |-> << >>, toast |-> ""]

\* no draft operation has been called
NoReport == [operation |-> "", draft |-> FALSE, outcome |-> ""]

\* useState initial values of EnhancedBillingProvider (index.css 170-173)
InitProvider ==
    /\ currentBill = NoBill
    /\ bills = << >>
    /\ nextId = 1
    /\ pending = << >>
    /\ saveBillToast = ""
    /\ catalog = NoCatalog
    /\ report = NoReport
    /\ account = LoadedAccount
    /\ showAddCustomer = FALSE

\* useState initial values of NewBill (NewBill.tsx 33-40)
InitPage ==
    /\ route = "other"
    /\ isSaving = FALSE
    /\ showProductSelection = FALSE
    /\ showAddItem = FALSE
    /\ selectedProduct = NoProduct
    /\ editingItemIndex = NoIndex
    /\ finalizeToast = ""

\* no NewBill instance is mounted, so no cleanup is registered
NoEffect == [registered |-> FALSE, currentBill |-> NoBill]

InitEffect == effect = NoEffect

\* no BillItemForm is mounted
NoForm ==
    [mounted |-> FALSE, sawInvalid |-> FALSE, product |-> NoProduct, quantity |-> 0,
     discountType |-> "fixed", discountValue |-> 0,
     subtotal |-> 0, discountAmount |-> 0, total |-> 0]

InitItemForm == itemForm = NoForm

\* numberToWords and the PDF renderer are not being exercised
IdleRenderer ==
    /\ words = [called |-> FALSE]
    /\ render = [called |-> FALSE]

IdleCalc ==
    /\ calcItems = << >>
    /\ calcType = "none"
    /\ calcValue = 0
    /\ calcResult = NoTotals
    /\ calcDone = FALSE

Init == InitProvider /\ InitPage /\ InitEffect /\ InitItemForm /\ IdleRenderer /\ IdleCalc

\* the local state of a NewBill instance that is being mounted or unmounted
ResetPageState ==
    /\ isSaving' = FALSE
    /\ showProductSelection' = FALSE
    /\ showAddItem' = FALSE
    /\ selectedProduct' = NoProduct
    /\ editingItemIndex' = NoIndex

\* the create-bill step of NewBill is rendered (currentStep, line 43)
CreateBillStep == route = "new-bill" /\ currentBill # NoBill

SelectCustomerStep == route = "new-bill" /\ currentBill = NoBill

(***************************************************************************)
(* saveBill, src/src/index.css lines 525-550, and the part of              *)
(* handleFinalizeBill that awaits it, NewBill.tsx lines 227-240.           *)
(* A request records what the call captured: the bill to save and the      *)
(* value of bills in the closure of the render that created saveBill.      *)
(***************************************************************************)
Request(bill, caller) ==
    [bill |-> bill, bills |-> bills, phase |-> "create", caller |-> caller]

RemoveAt(s, i) == SubSeq(s, 1, i - 1) \o SubSeq(s, i + 1, Len(s))

\* handleFinalizeBill without its finally block and without navigating
FinalizeContinuation_LeavesSaving(req, rest) ==
    /\ pending' = rest
    /\ IF req.caller = "page"
       THEN /\ finalizeToast' = "Bill saved successfully"
            /\ UNCHANGED <<route, isSaving, formVars>>
       ELSE UNCHANGED pageVars

\* handleFinalizeBill after `await saveBill(...)` returned: toast, navigate,
\* finally setIsSaving(false).  navigate('/bill-history') unmounts the NewBill
\* instance that is mounted, whose local state is gone with it.
FinalizeContinuation(req, rest) ==
    IF req.caller = "page"
    THEN /\ finalizeToast' = "Bill saved successfully"
         /\ route' = "bill-history"
         /\ ResetPageState
         /\ pending' = rest
    ELSE /\ pending' = rest
         /\ UNCHANGED pageVars

\* createUserBill answers success with the persisted bill, lines 537-541;
\* the data service now holds the bill
createUserBillSucceeds(i) ==
    /\ pending[i].phase = "create"
    /\ bills' = Append(pending[i].bills, pending[i].bill)
    /\ currentBill' = NoBill
    /\ pending' = [pending EXCEPT ![i].phase = "stats"]
    /\ account' = [account EXCEPT !.store = Append(@, pending[i].bill)]
    /\ UNCHANGED <<nextId, saveBillToast, pageVars, calcVars, effectVars, itemFormVars, rendererVars, catalogVars, callVars, showAddCustomer>>

\* updateDataStats returned, line 542, and saveBill returns to its caller
updateDataStatsReturns(i) ==
    /\ pending[i].phase = "stats"
    /\ saveBillToast' = "Bill saved successfully"
    /\ FinalizeContinuation(pending[i], RemoveAt(pending, i))
    /\ UNCHANGED <<currentBill, bills, nextId, calcVars, effectVars, itemFormVars, rendererVars, catalogVars, callVars, accountVars>>

\* the failure branch also running setCurrentBill(null)
createUserBillFails_ClearsDraft(i) ==
    /\ pending[i].phase = "create"
    /\ saveBillToast' = "result.message"
    /\ currentBill' = NoBill
    /\ FinalizeContinuation(pending[i], RemoveAt(pending, i))
    /\ UNCHANGED <<bills, nextId, calcVars, effectVars, itemFormVars, rendererVars, catalogVars, callVars, accountVars>>

\* createUserBill answers success = false, lines 543-545
createUserBillFails(i) ==
    /\ pending[i].phase = "create"
    /\ saveBillToast' = "result.message"
    /\ FinalizeContinuation(pending[i], RemoveAt(pending, i))
    /\ UNCHANGED <<currentBill, bills, nextId, calcVars, effectVars, itemFormVars, rendererVars, catalogVars, callVars, accountVars>>

\* createUserBill throws, lines 546-549
createUserBillThrows(i) ==
    /\ pending[i].phase = "create"
    /\ saveBillToast' = "Failed to save bill"
    /\ FinalizeContinuation(pending[i], RemoveAt(pending, i))
    /\ UNCHANGED <<currentBill, bills, nextId, calcVars, effectVars, itemFormVars, rendererVars, catalogVars, callVars, accountVars>>

(***************************************************************************)
(* Handlers of the NewBill page, src/src/pages/NewBill.tsx.                *)
(***************************************************************************)
\* handleSelectCustomer, lines 54-59
handleSelectCustomer(customer) ==
    /\ SelectCustomerStep
    /\ nextId <= MaxDrafts
    /\ currentBill' = initNewBill(customer, nextId)
    /\ nextId' = nextId + 1
    /\ UNCHANGED <<bills, pending, saveBillToast, pageVars, calcVars, effectVars, itemFormVars, rendererVars, catalogVars, callVars, accountVars>>

\* handleAddItem, lines 94-118 (the catalog is not empty)
handleAddItem ==
    /\ CreateBillStep
    /\ editingItemIndex' = NoIndex
    /\ selectedProduct' = NoProduct
    /\ showAddItem' = FALSE
    /\ showProductSelection' = TRUE
    /\ UNCHANGED <<providerVars, route, isSaving, finalizeToast, calcVars, effectVars, itemFormVars, rendererVars, catalogVars, callVars, accountVars>>

\* handleSelectProduct, lines 87-92
handleSelectProduct(product) ==
    /\ CreateBillStep
    /\ showProductSelection
    /\ selectedProduct' = product
    /\ showProductSelection' = FALSE
    /\ showAddItem' = TRUE
    /\ UNCHANGED <<providerVars, route, isSaving, editingItemIndex, finalizeToast, calcVars, effectVars, itemFormVars, rendererVars, catalogVars, callVars, accountVars>>

\* handleEditItem, lines 120-128: the row of an item of the table
handleEditItem(index) ==
    /\ CreateBillStep
    /\ index + 1 \in 1..Len(currentBill.items)
    /\ currentBill.items[index + 1].kind = "item"
    /\ editingItemIndex' = index
    /\ selectedProduct' = currentBill.items[index + 1].product
    /\ showProductSelection' = FALSE
    /\ showAddItem' = TRUE
    /\ UNCHANGED <<providerVars, route, isSaving, finalizeToast, calcVars, effectVars, itemFormVars, rendererVars, catalogVars, callVars, accountVars>>

\* handleDeleteItem, lines 130-135 (the user confirms)
handleDeleteItem(index) ==
    /\ CreateBillStep
    /\ index + 1 \in 1..Len(currentBill.items)
    /\ currentBill.items[index + 1].kind = "item"
    /\ currentBill' = removeBillItem(currentBill, index)
    /\ UNCHANGED <<bills, nextId, pending, saveBillToast, pageVars, calcVars, effectVars, itemFormVars, rendererVars, catalogVars, callVars, accountVars>>

\* handleCancelItemForm, lines 194-200
handleCancelItemForm ==
    /\ CreateBillStep
    /\ showAddItem /\ selectedProduct # NoProduct
    /\ showAddItem' = FALSE
    /\ showProductSelection' = FALSE
    /\ selectedProduct' = NoProduct
    /\ editingItemIndex' = NoIndex
    /\ UNCHANGED <<providerVars, route, isSaving, finalizeToast, calcVars, effectVars, itemFormVars, rendererVars, catalogVars, callVars, accountVars>>

\* handleSaveItem, lines 137-192, given the item the form submitted
handleSaveItemOf(item) ==
    /\ CreateBillStep
    /\ showAddItem /\ selectedProduct # NoProduct
    /\ LET adding == editingItemIndex = NoIndex
           newBill == IF adding THEN addItemToBill(currentBill, completeItem(item))
                      ELSE updateBillItem(currentBill, editingItemIndex, completeItem(item))
           threw == IF adding THEN addItemToBillThrows(currentBill, completeItem(item))
                    ELSE updateBillItemThrows(currentBill, editingItemIndex, completeItem(item))
       IN  IF saveItemRejection(item) # "" \/ threw
           THEN UNCHANGED <<currentBill, formVars>>
           ELSE /\ Len(newBill.items) <= MaxItems
                /\ currentBill' = newBill
                /\ showAddItem' = FALSE
                /\ showProductSelection' = FALSE
                /\ selectedProduct' = NoProduct
                /\ editingItemIndex' = NoIndex
    /\ UNCHANGED <<bills, nextId, pending, saveBillToast, route, isSaving,
                   finalizeToast, calcVars, effectVars, itemFormVars, rendererVars, catalogVars, callVars, accountVars>>

\* handleSubmit of BillItemForm (validateForm passes) handing its item to
\* handleSaveItem
handleSaveItem(quantity, discountType, discountValue) ==
    /\ validateQuantity(quantity) /\ validateDiscount(discountValue, discountType)
    /\ selectedProduct # NoProduct
    /\ handleSaveItemOf(BillItemFormSubmit(selectedProduct, quantity, discountType, discountValue))

\* handleBillDiscountChange, lines 202-204 (BillDiscountForm is rendered for
\* a draft with items, line 461)
handleBillDiscountChange(discountType, discountValue) ==
    /\ CreateBillStep
    /\ Len(currentBill.items) > 0
    /\ currentBill' = updateBillDiscount(currentBill, discountType, discountValue)
    /\ UNCHANGED <<bills, nextId, pending, saveBillToast, pageVars, calcVars, effectVars, itemFormVars, rendererVars, catalogVars, callVars, accountVars>>

\* handleFinalizeBill, lines 206-231, up to the await; saveBill up to its
\* await, index.css lines 525-536
handleFinalizeBill ==
    /\ CreateBillStep
    /\ ~finalizeDisabled(currentBill, isSaving)
    /\ IF finalizeRejection(currentBill) # ""
       THEN /\ finalizeToast' = finalizeRejection(currentBill)
            /\ UNCHANGED <<pending, isSaving>>
       ELSE /\ Len(pending) < MaxPending
            /\ isSaving' = TRUE
            /\ pending' = Append(pending, Request(currentBill, "page"))
            /\ UNCHANGED finalizeToast
    /\ UNCHANGED <<currentBill, bills, nextId, saveBillToast, route, formVars, calcVars, effectVars, itemFormVars, rendererVars, catalogVars, callVars, accountVars>>

\* the user leaves the NewBill page: the instance is unmounted and its local
\* state is gone; the provider keeps its state.  What the cleanup of the
\* page's effect (lines 45-52) does on top of this is the subject of
\* SpecAbandon below: here its failing call is taken to be contained.
LeavePage(destination) ==
    /\ route = "new-bill"
    /\ route' = destination
    /\ ResetPageState
    /\ UNCHANGED <<providerVars, finalizeToast, calcVars, effectVars, itemFormVars, rendererVars, catalogVars, callVars, accountVars>>

\* the user opens the NewBill page: a new instance is mounted, lines 15-43
EnterPage ==
    /\ route # "new-bill"
    /\ route' = "new-bill"
    /\ ResetPageState
    /\ UNCHANGED <<providerVars, finalizeToast, calcVars, effectVars, itemFormVars, rendererVars, catalogVars, callVars, accountVars>>

Next ==
    \/ \E c \in Customers : handleSelectCustomer(c)
    \/ handleAddItem
    \/ \E p \in CatalogIds : handleSelectProduct(p)
    \/ \E i \in 0..(MaxItems - 1) : handleEditItem(i)
    \/ \E i \in 0..(MaxItems - 1) : handleDeleteItem(i)
    \/ handleCancelItemForm
    \/ \E q \in FormQuantities, d \in FormDiscounts : handleSaveItem(q, d[1], d[2])
    \/ \E d \in BillDiscounts : handleBillDiscountChange(d[1], d[2])
    \/ handleFinalizeBill
    \/ \E i \in 1..Len(pending) : createUserBillSucceeds(i)
    \/ \E i \in 1..Len(pending) : updateDataStatsReturns(i)
    \/ \E i \in 1..Len(pending) : createUserBillFails(i)
    \/ \E i \in 1..Len(pending) : createUserBillThrows(i)
    \/ LeavePage("other")
    \/ EnterPage

Spec == Init /\ [][Next]_vars

(***************************************************************************)
(* Finalizing with a data service that answers: a draft is filled through  *)
(* the page and finalized, and every request waiting for createUserBill    *)
(* or for updateDataStats is eventually answered.  What the user does is   *)
(* under no fairness condition.                                            *)
(***************************************************************************)
\* createUserBill settles: success, success = false or an exception
createUserBillAnswers ==
    \E i \in 1..Len(pending) :
        createUserBillSucceeds(i) \/ createUserBillFails(i) \/ createUserBillThrows(i)

\* updateDataStats settles (it catches its own errors, index.css 585-592)
updateDataStatsAnswers == \E i \in 1..Len(pending) : updateDataStatsReturns(i)

NextSaving ==
    \/ EnterPage
    \/ LeavePage("other")
    \/ \E c \in Customers : handleSelectCustomer(c)
    \/ handleAddItem
    \/ \E p \in CatalogIds : handleSelectProduct(p)
    \/ \E q \in FormQuantities, d \in FormDiscounts : handleSaveItem(q, d[1], d[2])
    \/ handleFinalizeBill
    \/ createUserBillAnswers
    \/ updateDataStatsAnswers

SpecSaving ==
    /\ Init
    /\ [][NextSaving]_vars
    /\ WF_vars(createUserBillAnswers)
    /\ WF_vars(updateDataStatsAnswers)

(***************************************************************************)
(* The builder on its own: the operations of the provider called directly, *)
(* with any argument their types admit (no page validates them).           *)
(***************************************************************************)
BuilderDiscounts == BillDiscounts \cup { <<"percentage", 150>> }

call_initNewBill(customer) ==
    /\ nextId <= MaxDrafts
    /\ currentBill' = initNewBill(customer, nextId)
    /\ nextId' = nextId + 1
    /\ UNCHANGED <<bills, pending, saveBillToast, pageVars, calcVars, effectVars, itemFormVars, rendererVars, catalogVars, callVars, accountVars>>

call_addItemToBill(item) ==
    /\ Len(currentBill.items) < MaxItems
    /\ currentBill' = addItemToBill(currentBill, item)
    /\ UNCHANGED <<bills, nextId, pending, saveBillToast, pageVars, calcVars, effectVars, itemFormVars, rendererVars, catalogVars, callVars, accountVars>>

call_updateBillItem(index, item) ==
    /\ currentBill' = updateBillItem(currentBill, index, item)
    /\ UNCHANGED <<bills, nextId, pending, saveBillToast, pageVars, calcVars, effectVars, itemFormVars, rendererVars, catalogVars, callVars, accountVars>>

call_removeBillItem(index) ==
    /\ currentBill' = removeBillItem(currentBill, index)
    /\ UNCHANGED <<bills, nextId, pending, saveBillToast, pageVars, calcVars, effectVars, itemFormVars, rendererVars, catalogVars, callVars, accountVars>>

call_updateBillDiscount(discountType, discountValue) ==
    /\ currentBill' = updateBillDiscount(currentBill, discountType, discountValue)
    /\ UNCHANGED <<bills, nextId, pending, saveBillToast, pageVars, calcVars, effectVars, itemFormVars, rendererVars, catalogVars, callVars, accountVars>>

\* saveBill up to its await, index.css lines 525-536
call_saveBill ==
    /\ currentBill # NoBill
    /\ Len(pending) < MaxPending
    /\ pending' = Append(pending, Request(currentBill, "direct"))
    /\ UNCHANGED <<currentBill, bills, nextId, saveBillToast, pageVars, calcVars, effectVars, itemFormVars, rendererVars, catalogVars, callVars, accountVars>>

NextBuilder ==
    \/ \E c \in Customers : call_initNewBill(c)
    \/ \E item \in BuilderItemPool : call_addItemToBill(item)
    \/ \E i \in 0..(MaxItems - 1), item \in BuilderItemPool : call_updateBillItem(i, item)
    \/ \E i \in 0..MaxItems : call_removeBillItem(i)
    \/ \E d \in BuilderDiscounts : call_updateBillDiscount(d[1], d[2])
    \/ call_saveBill
    \/ \E i \in 1..Len(pending) : createUserBillSucceeds(i)
    \/ \E i \in 1..Len(pending) : updateDataStatsReturns(i)
    \/ \E i \in 1..Len(pending) : createUserBillFails(i)
    \/ \E i \in 1..Len(pending) : createUserBillThrows(i)

SpecBuilder == Init /\ [][NextBuilder]_vars

(***************************************************************************)
(* Starting drafts over: initNewBill called at any time, also while a      *)
(* draft exists, together with the operations that fill a draft.           *)
(***************************************************************************)
\* number of initNewBill calls explored
MaxInits == 3

\* initNewBill, index.css lines 430-444, called whatever currentBill holds
call_initNewBillAnytime(customer) ==
    /\ nextId <= MaxInits
    /\ currentBill' = initNewBill(customer, nextId)
    /\ nextId' = nextId + 1
    /\ UNCHANGED <<bills, pending, saveBillToast, pageVars, calcVars, effectVars, itemFormVars, rendererVars, catalogVars, callVars, accountVars>>

NextDrafts ==
    \/ \E c \in Customers : call_initNewBillAnytime(c)
    \/ \E item \in BuilderItemPool : call_addItemToBill(item)
    \/ \E i \in 0..(MaxItems - 1), item \in BuilderItemPool : call_updateBillItem(i, item)
    \/ \E i \in 0..MaxItems : call_removeBillItem(i)
    \/ \E d \in BuilderDiscounts : call_updateBillDiscount(d[1], d[2])

SpecDrafts == Init /\ [][NextDrafts]_vars

(***************************************************************************)
(* The draft operations as their caller sees them: what a call hands back, *)
(* with and without a draft.  A plain operation either returns (undefined) *)
(* or raises the TypeError of the reduce callback; saveBill is async and   *)
(* hands back a promise, already resolved when it returned at line 526 and *)
(* awaiting the data service otherwise.                                    *)
(***************************************************************************)
Report(operation, outcome) ==
    [operation |-> operation, draft |-> currentBill # NoBill, outcome |-> outcome]

\* addItemToBill, index.css lines 446-457
caller_addItemToBill(item) ==
    /\ Len(currentBill.items) < MaxItems
    /\ currentBill' = addItemToBill(currentBill, item)
    /\ report' = Report("addItemToBill",
                    IF addItemToBillThrows(currentBill, item) THEN "TypeError" ELSE "returned")
    /\ UNCHANGED <<bills, nextId, pending, saveBillToast, pageVars, calcVars, effectVars, itemFormVars, rendererVars, catalogVars, accountVars>>

\* updateBillItem, lines 459-472
caller_updateBillItem(index, item) ==
    /\ currentBill' = updateBillItem(currentBill, index, item)
    /\ report' = Report("updateBillItem",
                    IF updateBillItemThrows(currentBill, index, item) THEN "TypeError" ELSE "returned")
    /\ UNCHANGED <<bills, nextId, pending, saveBillToast, pageVars, calcVars, effectVars, itemFormVars, rendererVars, catalogVars, accountVars>>

\* removeBillItem, lines 474-485
caller_removeBillItem(index) ==
    /\ currentBill' = removeBillItem(currentBill, index)
    /\ report' = Report("removeBillItem", "returned")
    /\ UNCHANGED <<bills, nextId, pending, saveBillToast, pageVars, calcVars, effectVars, itemFormVars, rendererVars, catalogVars, accountVars>>

\* updateBillDiscount, lines 487-498
caller_updateBillDiscount(discountType, discountValue) ==
    /\ currentBill' = updateBillDiscount(currentBill, discountType, discountValue)
    /\ report' = Report("updateBillDiscount", "returned")
    /\ UNCHANGED <<bills, nextId, pending, saveBillToast, pageVars, calcVars, effectVars, itemFormVars, rendererVars, catalogVars, accountVars>>

\* saveBill up to its return at line 526 or its await at line 536
caller_saveBill ==
    /\ IF currentBill = NoBill
       THEN /\ report' = Report("saveBill", "resolved")
            /\ UNCHANGED pending
       ELSE /\ Len(pending) < MaxPending
            /\ pending' = Append(pending, Request(currentBill, "direct"))
            /\ report' = Report("saveBill", "awaiting")
    /\ UNCHANGED <<currentBill, bills, nextId, saveBillToast, pageVars, calcVars, effectVars, itemFormVars, rendererVars, catalogVars, accountVars>>

NextCalls ==
    \/ \E c \in Customers : call_initNewBill(c)
    \/ \E item \in BuilderItemPool : caller_addItemToBill(item)
    \/ \E i \in 0..(MaxItems - 1), item \in BuilderItemPool : caller_updateBillItem(i, item)
    \/ \E i \in 0..MaxItems : caller_removeBillItem(i)
    \/ \E d \in BuilderDiscounts : caller_updateBillDiscount(d[1], d[2])
    \/ caller_saveBill
    \/ \E i \in 1..Len(pending) : createUserBillSucceeds(i)
    \/ \E i \in 1..Len(pending) : updateDataStatsReturns(i)

SpecCalls == Init /\ [][NextCalls]_vars

(***************************************************************************)
(* The effect of NewBill, NewBill.tsx lines 45-52.  Its dependencies are   *)
(* [currentBill, clearCurrentBill]: React runs the registered cleanup, with *)
(* the currentBill of the render that registered it, whenever currentBill  *)
(* has changed and when the page is unmounted.  The handlers are those of  *)
(* the page; the commit that follows a handler runs before anything else.  *)
(***************************************************************************)
Registered(bill) == [registered |-> TRUE, currentBill |-> bill]

\* nothing is left for React to run
EffectsSettled ==
    IF route = "new-bill" THEN effect = Registered(currentBill) ELSE effect = NoEffect

\* the page can be used: it is not the blank screen of an unmounted root
Usable == route # "blank" /\ EffectsSettled

\* the condition of the cleanup, lines 47-48, on the bill it captured
cleanupCalls(captured) == captured # NoBill /\ Len(captured.items) = 0

\* clearCurrentBill() in the cleanup, line 49.  The provider value
\* (index.css lines 627-658) has no clearCurrentBill, so the call raises a
\* TypeError while React commits.  React unmounts the tree up to the nearest
\* error boundary: the NewBill instance is gone either way; the provider and
\* its state are kept when a boundary below the provider catches the error
\* and lost when none does.
clearCurrentBillRaises(providerLost) ==
    /\ effect' = NoEffect
    /\ ResetPageState
    /\ route' = IF providerLost THEN "blank" ELSE "error-fallback"
    /\ IF providerLost
       THEN /\ currentBill' = NoBill
            /\ bills' = << >>
            /\ UNCHANGED <<nextId, pending, saveBillToast>>
       ELSE UNCHANGED providerVars
    /\ UNCHANGED <<finalizeToast, calcVars, itemFormVars, rendererVars, catalogVars, callVars, accountVars>>

\* the effect of a newly mounted NewBill registers its cleanup
MountEffect ==
    /\ route = "new-bill"
    /\ ~effect.registered
    /\ effect' = Registered(currentBill)
    /\ UNCHANGED <<providerVars, pageVars, calcVars, itemFormVars, rendererVars, catalogVars, callVars, accountVars>>

\* currentBill changed: the old cleanup runs, then the effect registers anew
RerunEffect ==
    /\ route = "new-bill"
    /\ effect.registered
    /\ effect.currentBill # currentBill
    /\ IF cleanupCalls(effect.currentBill)
       THEN \E providerLost \in BOOLEAN : clearCurrentBillRaises(providerLost)
       ELSE /\ effect' = Registered(currentBill)
            /\ UNCHANGED <<providerVars, pageVars, calcVars, itemFormVars, rendererVars, catalogVars, callVars, accountVars>>

\* the page was left: the cleanup of its last render runs
UnmountEffect ==
    /\ route \in {"other", "bill-history"}
    /\ effect.registered
    /\ IF cleanupCalls(effect.currentBill)
       THEN \E providerLost \in BOOLEAN : clearCurrentBillRaises(providerLost)
       ELSE /\ effect' = NoEffect
            /\ UNCHANGED <<providerVars, pageVars, calcVars, itemFormVars, rendererVars, catalogVars, callVars, accountVars>>

NextAbandon ==
    \/ Usable /\ EnterPage
    \/ Usable /\ LeavePage("other")
    \/ Usable /\ \E c \in Customers : handleSelectCustomer(c)
    \/ Usable /\ handleAddItem
    \/ Usable /\ \E p \in CatalogIds : handleSelectProduct(p)
    \/ Usable /\ \E i \in 0..(MaxItems - 1) : handleEditItem(i)
    \/ Usable /\ \E i \in 0..(MaxItems - 1) : handleDeleteItem(i)
    \/ Usable /\ handleCancelItemForm
    \/ Usable /\ \E q \in FormQuantities, d \in FormDiscounts : handleSaveItem(q, d[1], d[2])
    \/ Usable /\ \E d \in BillDiscounts : handleBillDiscountChange(d[1], d[2])
    \/ MountEffect
    \/ RerunEffect
    \/ UnmountEffect

SpecAbandon == Init /\ [][NextAbandon]_vars

(***************************************************************************)
(* BillItemForm as a component with state, CustomersList.tsx lines         *)
(* 129-239: the user edits quantity, discount type and discount value one  *)
(* at a time, the effect of lines 155-169 recomputes the derived amounts   *)
(* after each edit, and handleSubmit hands the state to handleSaveItem.    *)
(***************************************************************************)
TypedQuantities == {0, 3}

TypedDiscountValues == {0, 50, 150}

FormDiscountTypes == {"fixed", "percentage"}

\* validateForm, lines 193-211, and the condition of the effect, line 156
formValid(f) == validateQuantity(f.quantity) /\ validateDiscount(f.discountValue, f.discountType)

\* the effect with the derived discount left as it was
recomputeEffect_StaleDiscount(f) ==
    IF formValid(f)
    THEN LET newSubtotal == calculateItemSubtotal(CatalogPrice(f.product), f.quantity)
             newDiscountAmount == calculateItemDiscount(newSubtotal, f.discountType, f.discountValue)
         IN  [f EXCEPT !.subtotal = newSubtotal,
                       !.total = calculateItemTotal(newSubtotal, newDiscountAmount)]
    ELSE f

\* the effect, lines 155-169: the amounts are recomputed only for valid input
recomputeEffect(f) ==
    IF formValid(f)
    THEN LET newSubtotal == calculateItemSubtotal(CatalogPrice(f.product), f.quantity)
             newDiscountAmount == calculateItemDiscount(newSubtotal, f.discountType, f.discountValue)
         IN  [f EXCEPT !.subtotal = newSubtotal,
                       !.discountAmount = newDiscountAmount,
                       !.total = calculateItemTotal(newSubtotal, newDiscountAmount)]
    ELSE f

\* an edit followed by the effect; sawInvalid remembers that the form has
\* held invalid input since it was mounted
afterEdit(f) == [recomputeEffect(f) EXCEPT !.sawInvalid = f.sawInvalid \/ ~formValid(f)]

\* NewBill renders the form, NewBill.tsx lines 415-428
FormRendered == CreateBillStep /\ showAddItem /\ selectedProduct # NoProduct

\* the existingItem prop: currentBill.items[editingItemIndex]
HasExistingItem ==
    /\ editingItemIndex # NoIndex
    /\ editingItemIndex < Len(currentBill.items)
    /\ currentBill.items[editingItemIndex + 1].kind = "item"

\* useState initial values, lines 135-145
initialForm ==
    LET existing == currentBill.items[editingItemIndex + 1]
    IN  [mounted |-> TRUE, sawInvalid |-> FALSE, product |-> selectedProduct,
         quantity |-> IF HasExistingItem THEN OrElse(existing.quantity, 1) ELSE 1,
         discountType |-> IF HasExistingItem THEN existing.discountType ELSE "fixed",
         discountValue |-> IF HasExistingItem THEN OrElse(existing.discountValue, 0) ELSE 0,
         subtotal |-> 0, discountAmount |-> 0, total |-> 0]

\* the item built by handleSubmit, lines 221-235
formItem(f) ==
    Item(f.product, f.quantity, CatalogPrice(f.product), f.discountType, f.discountValue,
         f.subtotal, f.discountAmount, f.total)

\* React has nothing left to do for the form
FormSettled ==
    IF FormRendered THEN itemForm.mounted /\ itemForm.product = selectedProduct
    ELSE ~itemForm.mounted

MountBillItemForm ==
    /\ FormRendered /\ ~itemForm.mounted
    /\ itemForm' = recomputeEffect(initialForm)
    /\ UNCHANGED <<providerVars, pageVars, calcVars, effectVars, rendererVars, catalogVars, callVars, accountVars>>

\* another product was selected while the form is open: unitPrice changes
\* and the effect runs, the state of the form is kept
RerenderBillItemForm ==
    /\ FormRendered /\ itemForm.mounted /\ itemForm.product # selectedProduct
    /\ itemForm' = afterEdit([itemForm EXCEPT !.product = selectedProduct])
    /\ UNCHANGED <<providerVars, pageVars, calcVars, effectVars, rendererVars, catalogVars, callVars, accountVars>>

UnmountBillItemForm ==
    /\ ~FormRendered /\ itemForm.mounted
    /\ itemForm' = NoForm
    /\ UNCHANGED <<providerVars, pageVars, calcVars, effectVars, rendererVars, catalogVars, callVars, accountVars>>

\* handleQuantityChange, lines 171-178
handleQuantityChange(value) ==
    /\ itemForm.mounted
    /\ itemForm' = afterEdit([itemForm EXCEPT !.quantity = value])
    /\ UNCHANGED <<providerVars, pageVars, calcVars, effectVars, rendererVars, catalogVars, callVars, accountVars>>

\* handleDiscountTypeChange, lines 180-182
handleDiscountTypeChange(value) ==
    /\ itemForm.mounted
    /\ itemForm' = afterEdit([itemForm EXCEPT !.discountType = value])
    /\ UNCHANGED <<providerVars, pageVars, calcVars, effectVars, rendererVars, catalogVars, callVars, accountVars>>

\* handleDiscountValueChange, lines 184-191
handleDiscountValueChange(value) ==
    /\ itemForm.mounted
    /\ itemForm' = afterEdit([itemForm EXCEPT !.discountValue = value])
    /\ UNCHANGED <<providerVars, pageVars, calcVars, effectVars, rendererVars, catalogVars, callVars, accountVars>>

\* handleSubmit, lines 213-239: validateForm passes and onSave is called
handleSubmit ==
    /\ itemForm.mounted
    /\ formValid(itemForm)
    /\ handleSaveItemOf(formItem(itemForm))

NextForm ==
    \/ FormSettled /\ EnterPage
    \/ FormSettled /\ LeavePage("other")
    \/ FormSettled /\ \E c \in Customers : handleSelectCustomer(c)
    \/ FormSettled /\ handleAddItem
    \/ FormSettled /\ \E p \in CatalogIds : handleSelectProduct(p)
    \/ FormSettled /\ \E i \in 0..(MaxItems - 1) : handleEditItem(i)
    \/ FormSettled /\ \E i \in 0..(MaxItems - 1) : handleDeleteItem(i)
    \/ FormSettled /\ handleCancelItemForm
    \/ FormSettled /\ \E v \in TypedQuantities : handleQuantityChange(v)
    \/ FormSettled /\ \E t \in FormDiscountTypes : handleDiscountTypeChange(t)
    \/ FormSettled /\ \E v \in TypedDiscountValues : handleDiscountValueChange(v)
    \/ FormSettled /\ handleSubmit
    \/ MountBillItemForm
    \/ RerenderBillItemForm
    \/ UnmountBillItemForm

SpecForm == Init /\ [][NextForm]_vars

(***************************************************************************)
(* numberToWords, src/src/utils/pdfGenerator.ts lines 451-508.             *)
(* A text is the sequence of the pieces that were concatenated, a piece    *)
(* being a word or one space; concatenating the empty string adds nothing. *)
(* The argument is kept as its crore part and the rest below one crore     *)
(* (num = crore * 10000000 + rest), so that arguments of 10^10 and more    *)
(* fit the integers of the model checker.                                  *)
(***************************************************************************)
Num(crore, rest) == [crore |-> crore, rest |-> rest]

Str(w) == IF w = "" THEN << >> ELSE <<w>>

ones == <<"", "One", "Two", "Three", "Four", "Five", "Six", "Seven", "Eight", "Nine">>

teens == <<"Ten", "Eleven", "Twelve", "Thirteen", "Fourteen", "Fifteen", "Sixteen",
           "Seventeen", "Eighteen", "Nineteen">>

tens == <<"", "", "Twenty", "Thirty", "Forty", "Fifty", "Sixty", "Seventy", "Eighty", "Ninety">>

\* table[index] inside a string concatenation: an index past the end of the
\* array reads undefined, which concatenates as the text "undefined"
At(table, index) == IF index < Len(table) THEN table[index + 1] ELSE "undefined"

\* convertHundreds, lines 458-479
convertHundreds(n) ==
    LET hundreds == IF n >= 100
                    THEN Str(At(ones, n \div 100)) \o <<" ", "Hundred", " ">>
                    ELSE << >>
        n1 == IF n >= 100 THEN n % 100 ELSE n
    IN  IF n1 >= 20
        THEN hundreds \o Str(At(tens, n1 \div 10)) \o <<" ">>
                      \o (IF n1 % 10 > 0 THEN Str(At(ones, n1 % 10)) \o <<" ">> ELSE << >>)
        ELSE IF n1 >= 10
        THEN hundreds \o Str(At(teens, n1 - 10)) \o <<" ">>
        ELSE hundreds \o (IF n1 > 0 THEN Str(At(ones, n1)) \o <<" ">> ELSE << >>)

\* String.prototype.trim
RECURSIVE trimStart(_)
trimStart(t) == IF t # << >> /\ Head(t) = " " THEN trimStart(Tail(t)) ELSE t

RECURSIVE trimEnd(_)
trimEnd(t) ==
    IF t # << >> /\ t[Len(t)] = " " THEN trimEnd(SubSeq(t, 1, Len(t) - 1)) ELSE t

trim(t) == trimEnd(trimStart(t))

\* numberToWords leaving out the scale word of the lakh group
numberToWords_NoLakhWord(num) ==
    IF num.crore = 0 /\ num.rest = 0 THEN <<"Zero">>
    ELSE IF num.crore = 0 /\ num.rest < 1000 THEN trim(convertHundreds(num.rest))
    ELSE LET crores == IF num.crore >= 1
                       THEN convertHundreds(num.crore) \o <<"Crore", " ">>
                       ELSE << >>
             num1 == num.rest
             lakhs == IF num1 >= 100000 THEN convertHundreds(num1 \div 100000) ELSE << >>
             num2 == IF num1 >= 100000 THEN num1 % 100000 ELSE num1
             thousands == IF num2 >= 1000
                          THEN convertHundreds(num2 \div 1000) \o <<"Thousand", " ">>
                          ELSE << >>
             num3 == IF num2 >= 1000 THEN num2 % 1000 ELSE num2
         IN  trim(crores \o lakhs \o thousands
                  \o (IF num3 > 0 THEN convertHundreds(num3) ELSE << >>))

\* numberToWords writing every scale word once the number reaches 1000
numberToWords_NoGroupTest(num) ==
    IF num.crore = 0 /\ num.rest = 0 THEN <<"Zero">>
    ELSE IF num.crore = 0 /\ num.rest < 1000 THEN trim(convertHundreds(num.rest))
    ELSE LET lakhs == num.rest \div 100000
             thousands == (num.rest % 100000) \div 1000
             units == num.rest % 1000
         IN  trim(   convertHundreds(num.crore) \o <<"Crore", " ">>
                  \o convertHundreds(lakhs) \o <<"Lakh", " ">>
                  \o convertHundreds(thousands) \o <<"Thousand", " ">>
                  \o convertHundreds(units))

\* numberToWords, lines 451-508
numberToWords(num) ==
    IF num.crore = 0 /\ num.rest = 0 THEN <<"Zero">>
    ELSE IF num.crore = 0 /\ num.rest < 1000 THEN trim(convertHundreds(num.rest))
    ELSE LET crores == IF num.crore >= 1
                       THEN convertHundreds(num.crore) \o <<"Crore", " ">>
                       ELSE << >>
             num1 == num.rest
             lakhs == IF num1 >= 100000
                      THEN convertHundreds(num1 \div 100000) \o <<"Lakh", " ">>
                      ELSE << >>
             num2 == IF num1 >= 100000 THEN num1 % 100000 ELSE num1
             thousands == IF num2 >= 1000
                          THEN convertHundreds(num2 \div 1000) \o <<"Thousand", " ">>
                          ELSE << >>
             num3 == IF num2 >= 1000 THEN num2 % 1000 ELSE num2
         IN  trim(crores \o lakhs \o thousands
                  \o (IF num3 > 0 THEN convertHundreds(num3) ELSE << >>))

\* arguments: crore part, lakh group, thousand group and the last three digits
WordsCrores == {0, 1, 12, 999, 1000}

WordsLakhs == {0, 1, 10, 99}

WordsThousands == {0, 1, 10, 99}

WordsUnits == {0, 1, 19, 21, 100, 110, 999}

InitWords ==
    /\ InitProvider /\ InitPage /\ InitEffect /\ InitItemForm /\ IdleCalc
    /\ render = [called |-> FALSE]
    /\ \E c \in WordsCrores, l \in WordsLakhs, t \in WordsThousands, u \in WordsUnits :
          words = [called |-> FALSE, num |-> Num(c, l * 100000 + t * 1000 + u)]

call_numberToWords ==
    /\ ~words.called
    /\ words' = [called |-> TRUE, num |-> words.num, result |-> numberToWords(words.num)]
    /\ UNCHANGED <<providerVars, pageVars, calcVars, effectVars, itemFormVars, render, catalogVars, callVars, accountVars>>

NextWords == call_numberToWords

SpecWords == InitWords /\ [][NextWords]_vars

(***************************************************************************)
(* The PDF renderer, src/src/utils/pdfGenerator.ts.  A field that may be   *)
(* missing (null or undefined) is a record with a present flag.  Absent    *)
(* stands for a bill, issuer, customer, product or item that is null or    *)
(* undefined.  jsPDF itself is taken to draw whatever text it is given.    *)
(***************************************************************************)
NoText == [present |-> FALSE, value |-> ""]

NoNumber == [present |-> FALSE, value |-> 0]

Some(v) == [present |-> TRUE, value |-> v]

Absent == [present |-> FALSE]

\* safeText, lines 40-43 (the texts used here carry no outer blanks to trim)
safeText(field) == IF field.present THEN field.value ELSE ""

\* safeNumber, lines 45-48
safeNumber(field) == IF field.present THEN field.value ELSE 0

\* String.prototype.toUpperCase on the names used here
toUpperCase(text) ==
    IF text = "Asha" THEN "ASHA"
    ELSE IF text = "Kiran Stores" THEN "KIRAN STORES"
    ELSE text

\* a || b on texts and on numbers that may be missing
TextOr(field, fallback) == IF field.present /\ field.value # "" THEN field.value ELSE fallback

NumberOr(field, fallback) == IF field.present /\ field.value # 0 THEN field.value ELSE fallback

\* the check of lines 15-22, shared by generateAndDownloadPDF, lines 560-573
itemsMissingOrEmpty(bill) == bill.items.kind # "array" \/ Len(bill.items.list) = 0

\* one row of the item table, lines 197-262; SkippedRow when the item or its
\* product is missing (lines 200-203)
SkippedRow == [drawn |-> FALSE, name |-> "", code |-> "", quantity |-> 0, unitPrice |-> 0,
               amount |-> 0, discountAmount |-> 0]

itemRow(item) ==
    IF ~item.present \/ ~item.product.present THEN SkippedRow
    ELSE LET quantity == safeNumber(item.quantity)
             \* lines 239-244
             unitPrice == NumberOr(item.unitPrice,
                              NumberOr(item.product.unitPrice,
                                  NumberOr(item.product.price, 0)))
         IN  [drawn |-> TRUE,
              name |-> TextOr(item.product.name, ""),
              code |-> TextOr(item.product.code, ""),
              quantity |-> quantity,
              unitPrice |-> unitPrice,
              \* line 250
              amount |-> NumberOr(item.total, quantity * unitPrice),
              \* line 255
              discountAmount |-> NumberOr(item.discountAmount, 0)]

\* the running totals of lines 253-255: only a row that was drawn adds to them
RECURSIVE SumAmount(_)
SumAmount(rows) ==
    IF rows = << >> THEN 0
    ELSE (IF Head(rows).drawn THEN Head(rows).amount ELSE 0) + SumAmount(Tail(rows))

RECURSIVE SumRowDiscount(_)
SumRowDiscount(rows) ==
    IF rows = << >> THEN 0
    ELSE (IF Head(rows).drawn THEN Head(rows).discountAmount ELSE 0)
         + SumRowDiscount(Tail(rows))

\* lines 272-291: the empty rows drawn after the item rows
minRows == 6

rowHeight == 14

paddingRows(currentRows) == IF currentRows < minRows THEN minRows - currentRows ELSE 0

\* lines 293-310: the discount row
NoDiscountRow == [emitted |-> FALSE, percent |-> 0, amount |-> 0]

discountRow(bill, totalDiscount) ==
    LET billDiscountAmount == NumberOr(bill.billDiscountAmount, 0)
    IN  IF totalDiscount > 0 \/ billDiscountAmount > 0
        THEN [emitted |-> TRUE,
              percent |-> IF bill.billDiscountType = "percentage"
                          THEN safeNumber(bill.billDiscountValue) ELSE 0,
              amount |-> totalDiscount + billDiscountAmount]
        ELSE NoDiscountRow

\* lines 370-375 and 405-407.  The tax is a fraction: an amount is a record
\* [num, den] with den > 0.
igstRate == 18

Frac(num, den) == [num |-> num, den |-> den]

\* the tax taken forward on the total (rate / 100)
igstAmountOf_ForwardRate(taxableAmount) == Frac(taxableAmount * igstRate, 100)

igstAmountOf(taxableAmount) == Frac(taxableAmount * igstRate, 100 + igstRate)

\* taxableAmount - igstAmount
minusFrac(amount, f) == Frac(amount * f.den - f.num, f.den)

\* Math.floor
floorFrac(f) == f.num \div f.den

\* Number.prototype.toFixed(2) of a non-negative amount, in hundredths
toFixed2(f) == (2 * 100 * f.num + f.den) \div (2 * f.den)

taxAmountInWords(igstAmount) ==
    IF igstAmount.num > 0
    THEN <<"INR", " ">> \o numberToWords(Num(0, floorFrac(igstAmount))) \o <<" ", "Only">>
    ELSE <<"INR", " ", "Zero", " ", "Only">>

\* lines 32-37: the page and the start of the running vertical cursor
pageHeight == 297

margin == 15

\* the y positions of the sections below the item table, each computed from
\* the running cursor yPosition as lines 37-439 advance it: the title (63),
\* the seller box (119), the buyer box (154) and the table header (186),
\* then the item rows and the empty rows (257, 289), the discount row (309),
\* the total row (325), the amount in words (332, 338), the tax table
\* (341-397), the tax in words (403, 410), the bank details (416-428), the
\* signature (431-433) and the footer (436)
layout(itemRows, emptyRows, discountEmitted) ==
    LET tableY == margin + 12 + 33 + 25 + 10
        totalRowY == tableY + rowHeight * (itemRows + emptyRows)
                        + (IF discountEmitted THEN 10 ELSE 0)
        amountWordsY == totalRowY + 12 + 8 + 5
        taxTableY == amountWordsY + 12
        taxRowY == taxTableY + 8
        totalTaxY == taxRowY + 8
        taxWordsY == totalTaxY + 8 + 12 + 5
        bankTitleY == taxWordsY + 12
        bankFirstY == bankTitleY + 5
        afterBankY == bankFirstY + 4 * 4
    IN  [tableY |-> tableY,
         totalRowY |-> totalRowY,
         taxTableY |-> taxTableY,
         bankTitleY |-> bankTitleY,
         bankLastY |-> afterBankY - 4,
         forY |-> afterBankY - 8,
         signatoryY |-> afterBankY + 12,
         footerY |-> pageHeight - 25]

Failed(message) == [ok |-> FALSE, error |-> message]

\* generateA5BillPDF, lines 12-447: the document it returns, or the error it
\* throws (line 445 wraps every error as 'Failed to generate PDF: ...')
generateA5BillPDF(bill, businessInfo) ==
    IF ~bill.present \/ ~businessInfo.present
    THEN Failed("Failed to generate PDF: Missing bill or business information")
    ELSE IF itemsMissingOrEmpty(bill)
    THEN Failed("Failed to generate PDF: No items found in the bill")
    ELSE IF ~bill.customer.present
    THEN Failed("Failed to generate PDF: Cannot read properties of undefined (reading 'name')")
    ELSE LET rows == [i \in 1..Len(bill.items.list) |-> itemRow(bill.items.list[i])]
             itemRows == Cardinality({i \in 1..Len(rows) : rows[i].drawn})
             emptyRows == paddingRows(Len(bill.items.list))
             finalTotal == safeNumber(bill.total)
             igstAmount == igstAmountOf(finalTotal)
         IN  [ok |-> TRUE,
              error |-> "",
              businessName |-> toUpperCase(safeText(businessInfo.businessName)),
              businessAddress |-> safeText(businessInfo.address),
              bankName |-> TextOr(businessInfo.bankName, "Bank Name"),
              paymentMode |-> TextOr(bill.paymentMode, "Cash"),
              customerName |-> toUpperCase(safeText(bill.customer.name)),
              customerAddress |-> TextOr(bill.customer.address, "Address not provided"),
              customerPhone |-> safeText(bill.customer.phone),
              rows |-> rows,
              itemRows |-> itemRows,
              emptyRows |-> emptyRows,
              tableHeight |-> rowHeight * (itemRows + emptyRows),
              itemTotal |-> SumAmount(rows),
              discountRow |-> discountRow(bill, SumRowDiscount(rows)),
              total |-> finalTotal,
              amountInWords |-> numberToWords(Num(0, finalTotal)),
              taxableValue |-> minusFrac(finalTotal, igstAmount),
              igstAmount |-> igstAmount,
              taxAmountInWords |-> taxAmountInWords(igstAmount),
              layout |-> layout(itemRows, emptyRows,
                                discountRow(bill, SumRowDiscount(rows)).emitted)]

\* generateAndDownloadPDF, lines 558-606, with printBillPDF (526-556) and
\* downloadBillPDF (510-524): what was exported, the export modes attempted
\* in order, the toasts raised (each the sequence of the texts concatenated
\* into it) and whether the promise rejects.  windowOpens: window.open
\* returned a window.  saveWorks: doc.save returned without throwing.
Export(exported, attempts, toasts, rejected) ==
    [exported |-> exported, attempts |-> attempts, toasts |-> toasts, rejected |-> rejected]

\* the message of the error downloadBillPDF throws, line 522
downloadError(doc) ==
    IF doc.ok THEN <<"Failed to download PDF: ", "doc.save failed">>
    ELSE <<"Failed to download PDF: ", doc.error>>

generateAndDownloadPDF(bill, businessInfo, action, windowOpens, saveWorks) ==
    LET doc == generateA5BillPDF(bill, businessInfo)
        printSuccess == doc.ok /\ windowOpens
        downloaded == doc.ok /\ saveWorks
        \* the catch of lines 598-604: the message is toasted for 'download'
        rejectedWith(message, attempts, toastsSoFar) ==
            Export("none", attempts,
                   toastsSoFar \o (IF action = "download" THEN <<message>> ELSE << >>),
                   TRUE)
    IN  IF ~bill.present
        THEN rejectedWith(<<"Bill information is missing">>, << >>,
                          << <<"Bill information is missing">> >>)
        ELSE IF ~businessInfo.present
        THEN rejectedWith(<<"Business information is missing">>, << >>,
                          << <<"Business information is missing">> >>)
        ELSE IF itemsMissingOrEmpty(bill)
        THEN rejectedWith(<<"No items found in the bill">>, << >>,
                          << <<"No items found in the bill">> >>)
        ELSE IF action = "print"
        THEN IF printSuccess
             THEN Export("print", <<"print">>, << <<"Print dialog opened">> >>, FALSE)
             ELSE IF downloaded
             THEN Export("download", <<"print", "download">>,
                         << <<"Print failed, but PDF downloaded successfully">> >>, FALSE)
             ELSE rejectedWith(<<"Both print and download failed. Please try again.">>,
                               <<"print", "download">>,
                               << <<"Both print and download failed. Please try again.">> >>)
        ELSE IF downloaded
             THEN Export("download", <<"download">>, << <<"Bill downloaded successfully">> >>, FALSE)
             ELSE rejectedWith(downloadError(doc), <<"download">>, << >>)

(***************************************************************************)
(* Inputs of the renderer specification.                                   *)
(***************************************************************************)
PdfCustomers ==
    { Absent,
      [present |-> TRUE, name |-> NoText, address |-> NoText, phone |-> NoText],
      [present |-> TRUE, name |-> Some("Asha"), address |-> Some("12 Hill Road"),
       phone |-> Some("555")] }

PdfProduct(name, code) ==
    [present |-> TRUE, name |-> name, code |-> code, unitPrice |-> NoNumber, price |-> NoNumber]

PdfItem(product, quantity, unitPrice, discountAmount, total) ==
    [present |-> TRUE, product |-> product, quantity |-> quantity,
     unitPrice |-> unitPrice, discountAmount |-> discountAmount, total |-> total]

FullPdfItem ==
    PdfItem(PdfProduct(Some("Pen"), Some("P1")), Some(3), Some(100), Some(50), Some(250))

BarePdfItem == PdfItem(PdfProduct(NoText, NoText), NoNumber, NoNumber, NoNumber, NoNumber)

\* an item without a price of its own: the product's price is shown
CatalogPricedPdfItem ==
    PdfItem([PdfProduct(Some("Ink"), Some("K1")) EXCEPT !.price = Some(40)],
            Some(2), NoNumber, NoNumber, NoNumber)

\* an item discounted to nothing
FreePdfItem ==
    PdfItem(PdfProduct(Some("Cap"), Some("C1")), Some(1), Some(100), Some(100), Some(0))

NoProductPdfItem == PdfItem(Absent, Some(3), Some(100), Some(50), Some(250))

NullPdfItem == [present |-> FALSE, product |-> Absent, quantity |-> NoNumber,
                unitPrice |-> NoNumber, discountAmount |-> NoNumber, total |-> NoNumber]

PdfItemLists ==
    { [kind |-> "missing", list |-> << >>],
      [kind |-> "array", list |-> << >>],
      [kind |-> "array", list |-> <<FullPdfItem>>],
      [kind |-> "array", list |-> <<BarePdfItem>>],
      [kind |-> "array", list |-> <<CatalogPricedPdfItem, FreePdfItem>>],
      [kind |-> "array", list |-> <<NoProductPdfItem>>],
      [kind |-> "array", list |-> <<NullPdfItem, FullPdfItem>>],
      [kind |-> "array", list |-> [i \in 1..(minRows + 1) |-> FullPdfItem]] }

\* bill discount fields: type, value and amount
PdfBillDiscounts ==
    { <<"none", NoNumber, NoNumber>>,
      <<"percentage", Some(10), Some(20)>> }

PdfTotals == {NoNumber, Some(5), Some(225)}

PdfBills ==
    { Absent } \cup
    { [present |-> TRUE, customer |-> c, items |-> its, paymentMode |-> pm, total |-> t,
       billDiscountType |-> d[1], billDiscountValue |-> d[2], billDiscountAmount |-> d[3]] :
        c \in PdfCustomers, its \in PdfItemLists,
        pm \in {NoText, Some("UPI")}, t \in PdfTotals, d \in PdfBillDiscounts }

PdfIssuers ==
    { Absent,
      [present |-> TRUE, businessName |-> NoText, address |-> NoText, bankName |-> NoText],
      [present |-> TRUE, businessName |-> Some("Kiran Stores"), address |-> Some("1 Main Street"),
       bankName |-> Some("City Bank")] }

InitRender ==
    /\ InitProvider /\ InitPage /\ InitEffect /\ InitItemForm /\ IdleCalc
    /\ words = [called |-> FALSE]
    /\ \E b \in PdfBills, u \in PdfIssuers, a \in {"download", "print"},
          w \in BOOLEAN, sv \in BOOLEAN :
          render = [called |-> FALSE, generated |-> FALSE, exported |-> FALSE,
                    bill |-> b, businessInfo |-> u, action |-> a, windowOpens |-> w,
                    saveWorks |-> sv]

call_generateA5BillPDF ==
    /\ ~render.generated
    /\ render' = [render EXCEPT !.generated = TRUE, !.called = render.exported] @@
                  [doc |-> generateA5BillPDF(render.bill, render.businessInfo)]
    /\ UNCHANGED <<providerVars, pageVars, calcVars, effectVars, itemFormVars, words, catalogVars, callVars, accountVars>>

call_generateAndDownloadPDF ==
    /\ ~render.exported
    /\ render' = [render EXCEPT !.exported = TRUE, !.called = render.generated] @@
                  [export |-> generateAndDownloadPDF(render.bill, render.businessInfo,
                                                     render.action, render.windowOpens,
                                                     render.saveWorks)]
    /\ UNCHANGED <<providerVars, pageVars, calcVars, effectVars, itemFormVars, words, catalogVars, callVars, accountVars>>

NextRender == call_generateA5BillPDF \/ call_generateAndDownloadPDF

SpecRender == InitRender /\ [][NextRender]_vars

(***************************************************************************)
(* Invoices of the bills the builder produces: a draft is built by the     *)
(* provider operations, reaches the bill history as it is and is handed    *)
(* to the renderer by handleDownloadPDF / handlePrintPDF                   *)
(* (src/src/pages/BillHistory.tsx lines 38-74).                            *)
(***************************************************************************)
\* the last item has no product
InvoiceItemPool ==
    { Item(1, 3, 100, "fixed", 50, 300, 50, 250),
      Item(1, 1, 100, "percentage", 100, 100, 100, 0),
      Item(1, 1, 100, "fixed", 0, 100, 0, 100),
      Item(NoProduct, 3, 100, "fixed", 50, 300, 50, 250) }

InvoiceDiscounts == { <<"fixed", 0>>, <<"fixed", 20>>, <<"percentage", 10>> }

RECURSIVE addItemsToBill(_, _)
addItemsToBill(bill, items) ==
    IF items = << >> THEN bill
    ELSE addItemsToBill(addItemToBill(bill, Head(items)), Tail(items))

\* initNewBill, addItemToBill for every item, updateBillDiscount
builtBill(customer, items, discount) ==
    updateBillDiscount(addItemsToBill(initNewBill(customer, 1), items),
                       discount[1], discount[2])

\* the bill as the renderer reads it: every field the builder wrote is present
asPdfItem(item) ==
    IF item.kind # "item" THEN NullPdfItem
    ELSE PdfItem(IF item.product = NoProduct THEN Absent
                 ELSE [PdfProduct(Some("Pen"), Some("P1")) EXCEPT
                          !.unitPrice = Some(CatalogPrice(item.product))],
                 Some(item.quantity), Some(item.unitPrice),
                 Some(item.discountAmount), Some(item.total))

asPdfBill(bill) ==
    [present |-> TRUE,
     customer |-> [present |-> TRUE, name |-> Some("Asha"),
                   address |-> Some("12 Hill Road"), phone |-> Some("555")],
     items |-> [kind |-> "array",
                list |-> [i \in 1..Len(bill.items) |-> asPdfItem(bill.items[i])]],
     paymentMode |-> NoText,
     total |-> Some(bill.total),
     billDiscountType |-> bill.billDiscountType,
     billDiscountValue |-> Some(bill.billDiscountValue),
     billDiscountAmount |-> Some(bill.billDiscountAmount)]

InitInvoice ==
    /\ InitProvider /\ InitPage /\ InitEffect /\ InitItemForm /\ IdleCalc
    /\ words = [called |-> FALSE]
    /\ \E items \in SeqsUpTo(InvoiceItemPool, MaxItems), d \in InvoiceDiscounts,
          u \in PdfIssuers \ {Absent}, a \in {"download", "print"} :
          LET draft == builtBill(1, items, d)
          IN  render = [called |-> FALSE, generated |-> FALSE, exported |-> FALSE,
                        bill |-> asPdfBill(draft), businessInfo |-> u, action |-> a,
                        windowOpens |-> TRUE, saveWorks |-> TRUE, draft |-> draft]

SpecInvoice == InitInvoice /\ [][NextRender]_vars

(***************************************************************************)
(* The product catalog of the provider, src/src/index.css lines 228-352.   *)
(* A product is [id, sno, createdAt, price].  Every operation awaits the   *)
(* data service: its first step runs up to the await and keeps the         *)
(* products of the render it was called in, its second step is the         *)
(* continuation.  The data service keeps the products it was sent.         *)
(***************************************************************************)
\* products ever created, and requests in flight at a time
MaxProducts == 2

MaxRequests == 2

ProductPrices == {100, 200}

\* updateSerialNumbers, lines 228-235: a stable sort by createdAt, then sno
\* is the position
RECURSIVE insertByCreatedAt(_, _)
insertByCreatedAt(sorted, product) ==
    IF sorted = << >> THEN <<product>>
    ELSE IF Head(sorted).createdAt <= product.createdAt
         THEN <<Head(sorted)>> \o insertByCreatedAt(Tail(sorted), product)
         ELSE <<product>> \o sorted

RECURSIVE sortByCreatedAt(_)
sortByCreatedAt(productList) ==
    IF productList = << >> THEN << >>
    ELSE insertByCreatedAt(sortByCreatedAt(SubSeq(productList, 1, Len(productList) - 1)),
                           productList[Len(productList)])

updateSerialNumbers(productList) ==
    LET sorted == sortByCreatedAt(productList)
    IN  [i \in 1..Len(sorted) |-> [sorted[i] EXCEPT !.sno = i]]

\* products.reduce((max, p) => Math.max(max, p.sno || 0), 0), lines 241, 308
RECURSIVE maxSnoOf(_)
maxSnoOf(productList) ==
    IF productList = << >> THEN 0
    ELSE Max(Head(productList).sno, maxSnoOf(Tail(productList)))

\* products.filter(p => p.id !== id)
RECURSIVE withoutProduct(_, _)
withoutProduct(productList, id) ==
    IF productList = << >> THEN << >>
    ELSE (IF Head(productList).id = id THEN << >> ELSE <<Head(productList)>>)
         \o withoutProduct(Tail(productList), id)

\* products.map(p => p.id === updated.id ? { ...result.product, sno: p.sno } : p)
withUpdatedProduct(productList, updated) ==
    [i \in 1..Len(productList) |->
        IF productList[i].id = updated.id
        THEN [updated EXCEPT !.sno = productList[i].sno]
        ELSE productList[i]]

CanCreate(n) ==
    /\ Len(catalog.requests) < MaxRequests
    /\ catalog.nextId + n - 1 <= MaxProducts

\* every catalog step leaves the bills and the page alone
CatalogFrame ==
    UNCHANGED <<providerVars, pageVars, calcVars, effectVars, itemFormVars, rendererVars, callVars, accountVars>>

\* addProduct up to its await, lines 238-249
addProduct(price) ==
    /\ CanCreate(1)
    /\ LET maxSno == maxSnoOf(catalog.products)
           productWithSno == [id |-> catalog.nextId, sno |-> maxSno + 1,
                              createdAt |-> catalog.now, price |-> price]
       IN  catalog' = [catalog EXCEPT
                          !.requests = Append(@, [kind |-> "add",
                                                  products |-> catalog.products,
                                                  sent |-> <<productWithSno>>]),
                          !.now = @ + 1,
                          !.nextId = @ + 1]
    /\ CatalogFrame

\* bulkAddProducts up to its first await, lines 306-320
bulkAddProducts(prices) ==
    /\ CanCreate(Len(prices))
    /\ LET maxExistingSno == maxSnoOf(catalog.products)
           productsWithSno ==
               [i \in 1..Len(prices) |->
                   [id |-> catalog.nextId + i - 1, sno |-> maxExistingSno + i,
                    createdAt |-> catalog.now, price |-> prices[i]]]
       IN  catalog' = [catalog EXCEPT
                          !.requests = Append(@, [kind |-> "bulk",
                                                  products |-> catalog.products,
                                                  sent |-> productsWithSno]),
                          !.now = @ + 1,
                          !.nextId = @ + Len(prices)]
    /\ CatalogFrame

\* updateProduct up to its await, lines 270-272
updateProduct(i, price) ==
    /\ Len(catalog.requests) < MaxRequests
    /\ i \in 1..Len(catalog.products)
    /\ catalog.products[i].price # price
    /\ catalog' = [catalog EXCEPT
                      !.requests = Append(@, [kind |-> "update",
                                              products |-> catalog.products,
                                              sent |-> <<[catalog.products[i] EXCEPT
                                                            !.price = price]>>])]
    /\ CatalogFrame

\* deleteProduct up to its await, lines 288-290
deleteProduct(i) ==
    /\ Len(catalog.requests) < MaxRequests
    /\ i \in 1..Len(catalog.products)
    /\ catalog' = [catalog EXCEPT
                      !.requests = Append(@, [kind |-> "delete",
                                              products |-> catalog.products,
                                              sent |-> <<catalog.products[i]>>])]
    /\ CatalogFrame

\* the products of a list that are among the chosen positions, in order
RECURSIVE chosen(_, _, _)
chosen(list, positions, i) ==
    IF i > Len(list) THEN << >>
    ELSE (IF i \in positions THEN <<list[i]>> ELSE << >>) \o chosen(list, positions, i + 1)

\* the continuation of addProduct (lines 250-263) and of bulkAddProducts
\* (lines 321-336): created holds the positions of the products whose
\* createUserProduct answered success
productsCreated(r, created) ==
    /\ r \in 1..Len(catalog.requests)
    /\ catalog.requests[r].kind \in {"add", "bulk"}
    /\ created \subseteq 1..Len(catalog.requests[r].sent)
    /\ LET request == catalog.requests[r]
           addedProducts == chosen(request.sent, created, 1)
       IN  catalog' = [catalog EXCEPT
                          !.products = IF addedProducts # << >>
                                       THEN request.products \o addedProducts
                                       ELSE @,
                          !.store = @ \o addedProducts,
                          !.requests = RemoveAt(@, r)]
    /\ CatalogFrame

\* updateProduct with bill items that refer to the product of the catalog:
\* the product of an item and its unit price become those of the update
productUpdated_LiveReference(r, success) ==
    /\ r \in 1..Len(catalog.requests)
    /\ catalog.requests[r].kind = "update"
    /\ LET request == catalog.requests[r]
           updated == request.sent[1]
           followCatalog(bill) ==
               IF bill = NoBill THEN bill
               ELSE [bill EXCEPT !.items =
                        [i \in 1..Len(bill.items) |->
                            IF bill.items[i].kind = "item"
                               /\ bill.items[i].product.id = updated.id
                            THEN [bill.items[i] EXCEPT !.product = updated,
                                                       !.unitPrice = updated.price]
                            ELSE bill.items[i]]]
       IN  /\ catalog' = [catalog EXCEPT
                             !.products = IF success
                                          THEN withUpdatedProduct(request.products, updated)
                                          ELSE @,
                             !.store = IF success
                                       THEN withUpdatedProduct(@, updated)
                                       ELSE @,
                             !.requests = RemoveAt(@, r)]
           /\ currentBill' = IF success THEN followCatalog(currentBill) ELSE currentBill
    /\ UNCHANGED <<bills, nextId, pending, saveBillToast, pageVars, calcVars, effectVars,
                   itemFormVars, rendererVars, callVars, accountVars>>

\* the continuation of updateProduct, lines 273-281
productUpdated(r, success) ==
    /\ r \in 1..Len(catalog.requests)
    /\ catalog.requests[r].kind = "update"
    /\ LET request == catalog.requests[r]
       IN  catalog' = [catalog EXCEPT
                          !.products = IF success
                                       THEN withUpdatedProduct(request.products, request.sent[1])
                                       ELSE @,
                          !.store = IF success
                                    THEN withUpdatedProduct(@, request.sent[1])
                                    ELSE @,
                          !.requests = RemoveAt(@, r)]
    /\ CatalogFrame

\* the continuation of deleteProduct, lines 291-299
productDeleted(r, success) ==
    /\ r \in 1..Len(catalog.requests)
    /\ catalog.requests[r].kind = "delete"
    /\ LET request == catalog.requests[r]
       IN  catalog' = [catalog EXCEPT
                          !.products = IF success
                                       THEN updateSerialNumbers(
                                                withoutProduct(request.products,
                                                               request.sent[1].id))
                                       ELSE @,
                          !.store = IF success
                                    THEN withoutProduct(@, request.sent[1].id)
                                    ELSE @,
                          !.requests = RemoveAt(@, r)]
    /\ CatalogFrame

\* refreshProducts, lines 343-352, and the product part of loadUserData,
\* lines 196-216: the list the data service answers with, renumbered
refreshProducts ==
    /\ catalog.products # updateSerialNumbers(catalog.store)
    /\ catalog' = [catalog EXCEPT !.products = updateSerialNumbers(catalog.store)]
    /\ CatalogFrame

NextCatalog ==
    \/ \E price \in ProductPrices : addProduct(price)
    \/ \E prices \in SeqsUpTo(ProductPrices, 2) \ {<< >>} : bulkAddProducts(prices)
    \/ \E i \in 1..MaxProducts, price \in ProductPrices : updateProduct(i, price)
    \/ \E i \in 1..MaxProducts : deleteProduct(i)
    \/ \E r \in 1..MaxRequests, created \in SUBSET (1..2) : productsCreated(r, created)
    \/ \E r \in 1..MaxRequests, success \in BOOLEAN : productUpdated(r, success)
    \/ \E r \in 1..MaxRequests, success \in BOOLEAN : productDeleted(r, success)
    \/ refreshProducts

SpecCatalog == Init /\ [][NextCatalog]_vars

(***************************************************************************)
(* Bills beside a changing catalog: a draft is started, takes items of the *)
(* products on the page and is saved, while products are added, updated,   *)
(* deleted and refreshed.                                                  *)
(***************************************************************************)
\* BillItemForm.handleSubmit (CustomersList.tsx lines 213-239) for a product
\* of the catalog, handed to addItemToBill: the item keeps the product it
\* was given and the unit price read from it (line 153)
call_addItemOfProduct(i, quantity) ==
    /\ currentBill # NoBill
    /\ currentBill.items = << >>
    /\ i \in 1..Len(catalog.products)
    /\ LET product == catalog.products[i]
       IN  currentBill' = addItemToBill(currentBill,
                              billItemOf(product, product.price, quantity, "fixed", 0))
    /\ UNCHANGED <<bills, nextId, pending, saveBillToast, pageVars, calcVars, effectVars,
                   itemFormVars, rendererVars, catalogVars, callVars, accountVars>>

NextStable ==
    \/ \E c \in Customers : call_initNewBill(c)
    \/ \E i \in 1..MaxProducts, q \in FormQuantities : call_addItemOfProduct(i, q)
    \/ pending = << >> /\ call_saveBill
    \/ \E i \in 1..Len(pending) : createUserBillSucceeds(i)
    \/ \E i \in 1..Len(pending) : updateDataStatsReturns(i)
    \/ \E price \in ProductPrices : addProduct(price)
    \/ \E i \in 1..MaxProducts, price \in ProductPrices : updateProduct(i, price)
    \/ \E i \in 1..MaxProducts : deleteProduct(i)
    \/ \E r \in 1..MaxRequests : productsCreated(r, {1})
    \/ \E r \in 1..MaxRequests, success \in BOOLEAN : productUpdated(r, success)
    \/ \E r \in 1..MaxRequests, success \in BOOLEAN : productDeleted(r, success)
    \/ refreshProducts

SpecStable == Init /\ [][NextStable]_vars

(***************************************************************************)
(* The sums of calculateBillTotals on amounts with a fraction.  A          *)
(* JavaScript number is an IEEE 754 binary64 value; a positive one is      *)
(* [exp, man] with man its 53 significand bits, most significant (always   *)
(* 1) first, and value man * 2^(exp - 52).  Zero is ZeroDouble.  The       *)
(* operator + rounds the exact sum to the nearest value, ties to even.     *)
(***************************************************************************)
SignificandBits == 53

ZeroDouble == [zero |-> TRUE, exp |-> 0, man |-> << >>]

Bits4(h) == <<h \div 8, (h \div 4) % 2, (h \div 2) % 2, h % 2>>

RECURSIVE HexBits(_)
HexBits(digits) ==
    IF digits = << >> THEN << >> ELSE Bits4(Head(digits)) \o HexBits(Tail(digits))

\* the value with unbiased exponent exp and the 13 hexadecimal digits of
\* its fraction field
Double(exp, fraction) == [zero |-> FALSE, exp |-> exp, man |-> <<1>> \o HexBits(fraction)]

Zeros(n) == [i \in 1..n |-> 0]

\* the sum of two bit strings of one length, one bit longer
RECURSIVE AddBits(_, _, _, _)
AddBits(left, right, i, carry) ==
    IF i = 0 THEN <<carry>>
    ELSE IF left[i] + right[i] + carry >= 2
         THEN AddBits(left, right, i - 1, 1) \o <<(left[i] + right[i] + carry) % 2>>
         ELSE AddBits(left, right, i - 1, 0) \o <<left[i] + right[i] + carry>>

\* a + b on numbers
plus(a, b) ==
    IF a.zero THEN b
    ELSE IF b.zero THEN a
    ELSE LET hi == IF a.exp >= b.exp THEN a ELSE b
             lo == IF a.exp >= b.exp THEN b ELSE a
             shift == hi.exp - lo.exp
             wide == hi.man \o Zeros(shift)
             narrow == Zeros(shift) \o lo.man
             exact == AddBits(wide, narrow, SignificandBits + shift, 0)
             carried == exact[1] = 1
             norm == IF carried THEN exact ELSE Tail(exact)
             exponent == IF carried THEN hi.exp + 1 ELSE hi.exp
             kept == SubSeq(norm, 1, SignificandBits)
             rest == SubSeq(norm, SignificandBits + 1, Len(norm))
             roundUp == /\ rest # << >>
                        /\ rest[1] = 1
                        /\ \/ \E i \in 2..Len(rest) : rest[i] = 1
                           \/ kept[SignificandBits] = 1
             above == AddBits(kept, Zeros(SignificandBits - 1) \o <<1>>, SignificandBits, 0)
         IN  IF ~roundUp THEN [zero |-> FALSE, exp |-> exponent, man |-> kept]
             ELSE IF above[1] = 1
                  THEN [zero |-> FALSE, exp |-> exponent + 1,
                        man |-> SubSeq(above, 1, SignificandBits)]
                  ELSE [zero |-> FALSE, exp |-> exponent, man |-> Tail(above)]

\* items.reduce((sum, item) => sum + item.subtotal, 0), index.css line 501
RECURSIVE reduceSubtotal(_, _)
reduceSubtotal(items, sum) ==
    IF items = << >> THEN sum
    ELSE reduceSubtotal(Tail(items), plus(sum, Head(items).subtotal))

\* the amounts 0.1, 0.2, 0.3 and 0.5
Tenth == Double(-4, <<9, 9, 9, 9, 9, 9, 9, 9, 9, 9, 9, 9, 10>>)

TwoTenths == Double(-3, <<9, 9, 9, 9, 9, 9, 9, 9, 9, 9, 9, 9, 10>>)

ThreeTenths == Double(-2, <<3, 3, 3, 3, 3, 3, 3, 3, 3, 3, 3, 3, 3>>)

Half == Double(-1, <<0, 0, 0, 0, 0, 0, 0, 0, 0, 0, 0, 0, 0>>)

\* items without discount whose subtotal has a fraction
FractionItemPool ==
    { [kind |-> "item", subtotal |-> amount, discountAmount |-> ZeroDouble] :
        amount \in {Tenth, TwoTenths, ThreeTenths, Half} }

InitFraction ==
    /\ InitProvider /\ InitPage /\ InitEffect /\ InitItemForm /\ IdleRenderer
    /\ calcItems \in SeqsUpTo(FractionItemPool, MaxLen)
    /\ calcType = "none"
    /\ calcValue = 0
    /\ calcResult = NoTotals
    /\ calcDone = FALSE

\* calculateBillTotals without a bill discount: the subtotal it returns
ComputeSubtotal ==
    /\ ~calcDone
    /\ calcResult' = [NoTotals EXCEPT !.subtotal = reduceSubtotal(calcItems, ZeroDouble)]
    /\ calcDone' = TRUE
    /\ UNCHANGED <<calcItems, calcType, calcValue, providerVars, pageVars, effectVars,
                   itemFormVars, rendererVars, catalogVars, callVars, accountVars>>

NextFraction == ComputeSubtotal

SpecFraction == InitFraction /\ [][NextFraction]_vars

(***************************************************************************)
(* The bill history of the provider, src/src/index.css lines 525-571, and  *)
(* the data service behind it.  deleteBill awaits the data service and     *)
(* then writes the list of the render that called it without the bill;     *)
(* saveBill writes the list of the render that called it with the bill.    *)
(* account.store is the list of bills the data service holds.              *)
(***************************************************************************)
\* bills.filter(bill => bill.id !== id), line 560
RECURSIVE withoutBill(_, _)
withoutBill(list, id) ==
    IF list = << >> THEN << >>
    ELSE IF Head(list).id = id THEN withoutBill(Tail(list), id)
    ELSE <<Head(list)>> \o withoutBill(Tail(list), id)

\* a request of the provider waiting for the data service, with what the
\* call captured
AccountRequest(kind, id, snapshot, caller) ==
    [kind |-> kind, phase |-> "service", id |-> id, snapshot |-> snapshot,
     caller |-> caller]

AccountFrame ==
    UNCHANGED <<pageVars, calcVars, effectVars, itemFormVars, rendererVars, catalogVars,
                callVars, showAddCustomer>>

\* the ids of the bills of a list
BillIds(list) == {list[i].id : i \in 1..Len(list)}

\* handleDelete of BillHistory (the user confirms), BillHistory.tsx lines
\* 29-37, and deleteBill up to its await, index.css lines 556-558
deleteBill(id) ==
    /\ id \in BillIds(bills)
    /\ Len(account.requests) < MaxRequests
    /\ account' = [account EXCEPT
                      !.requests = Append(@, AccountRequest("deleteBill", id, bills, "page"))]
    /\ UNCHANGED providerVars
    /\ AccountFrame

\* deleteUserBill answers success, lines 559-561
deleteUserBillSucceeds(r) ==
    /\ account.requests[r].kind = "deleteBill"
    /\ account.requests[r].phase = "service"
    /\ bills' = withoutBill(account.requests[r].snapshot, account.requests[r].id)
    /\ account' = [account EXCEPT !.store = withoutBill(@, account.requests[r].id),
                                  !.requests[r].phase = "stats"]
    /\ UNCHANGED <<currentBill, nextId, pending, saveBillToast>>
    /\ AccountFrame

\* updateDataStats returned, lines 562-563
deleteBillReturns(r) ==
    /\ account.requests[r].kind = "deleteBill"
    /\ account.requests[r].phase = "stats"
    /\ account' = [account EXCEPT !.toast = "Bill deleted successfully",
                                  !.requests = RemoveAt(@, r)]
    /\ UNCHANGED providerVars
    /\ AccountFrame

\* deleteUserBill answers success = false or throws, lines 564-569
deleteUserBillFails(r, threw) ==
    /\ account.requests[r].kind = "deleteBill"
    /\ account.requests[r].phase = "service"
    /\ account' = [account EXCEPT
                      !.toast = IF threw THEN "Failed to delete bill" ELSE "result.message",
                      !.requests = RemoveAt(@, r)]
    /\ UNCHANGED providerVars
    /\ AccountFrame

NextHistory ==
    \/ \E c \in Customers : call_initNewBillAnytime(c)
    \/ pending = << >> /\ call_saveBill
    \/ \E i \in 1..Len(pending) : createUserBillSucceeds(i)
    \/ \E i \in 1..Len(pending) : updateDataStatsReturns(i)
    \/ \E id \in 1..MaxInits : deleteBill(id)
    \/ \E r \in 1..Len(account.requests) : deleteUserBillSucceeds(r)
    \/ \E r \in 1..Len(account.requests) : deleteBillReturns(r)
    \/ \E r \in 1..Len(account.requests), threw \in BOOLEAN : deleteUserBillFails(r, threw)

SpecHistory == Init /\ [][NextHistory]_vars

(***************************************************************************)
(* Customers, src/src/index.css lines 355-377, and handleSaveCustomer of   *)
(* the NewBill page, NewBill.tsx lines 61-75.  addCustomer handles every   *)
(* failure itself and returns normally; a request of the page carries the  *)
(* continuation of handleSaveCustomer.                                     *)
(***************************************************************************)
\* customers the data service is asked to create
MaxCustomers == 2

\* handleSaveCustomer after `await addCustomer(customer)` returned, lines
\* 68-70: setShowAddCustomer(false), then handleSelectCustomer (54-59) with
\* its initNewBill
SaveCustomerContinuation(request) ==
    IF request.caller = "page"
    THEN /\ nextId <= MaxInits
         /\ showAddCustomer' = FALSE
         /\ currentBill' = initNewBill(request.id, nextId)
         /\ nextId' = nextId + 1
    ELSE UNCHANGED <<showAddCustomer, currentBill, nextId>>

\* the last toast once addCustomer has returned: that of handleSaveCustomer,
\* NewBill.tsx line 71, for a request of the page
lastCustomerToast(request, providerToast) ==
    IF request.caller = "page" THEN "Customer added successfully" ELSE providerToast

\* the customers a user enters as new
NewCustomers == {2}

CustomerFrame ==
    UNCHANGED <<bills, pending, saveBillToast, pageVars, calcVars, effectVars, itemFormVars,
                rendererVars, catalogVars, callVars>>

\* addCustomer up to its await, index.css lines 355-364
addCustomerCalled(customer, caller) ==
    /\ Len(account.requests) < MaxRequests
    /\ Len(account.customerStore) +
          Cardinality({r \in 1..Len(account.requests) :
                          account.requests[r].kind = "addCustomer"}) < MaxCustomers
    /\ account' = [account EXCEPT
                      !.requests = Append(@, AccountRequest("addCustomer", customer,
                                                            account.customers, caller))]

addCustomer(customer) ==
    /\ addCustomerCalled(customer, "direct")
    /\ UNCHANGED <<currentBill, nextId, showAddCustomer>>
    /\ CustomerFrame

\* handleAddCustomer, NewBill.tsx lines 61-63
handleAddCustomer ==
    /\ SelectCustomerStep
    /\ ~showAddCustomer
    /\ showAddCustomer' = TRUE
    /\ UNCHANGED <<account, currentBill, nextId>>
    /\ CustomerFrame

\* handleSaveCustomer up to its await, NewBill.tsx lines 65-67
handleSaveCustomer(customer) ==
    /\ SelectCustomerStep
    /\ showAddCustomer
    /\ addCustomerCalled(customer, "page")
    /\ UNCHANGED <<currentBill, nextId, showAddCustomer>>
    /\ CustomerFrame

\* createUserCustomer answers success with the customer, index.css 365-368
createUserCustomerSucceeds(r) ==
    /\ account.requests[r].kind = "addCustomer"
    /\ account.requests[r].phase = "service"
    /\ account' = [account EXCEPT
                      !.customers = Append(account.requests[r].snapshot, account.requests[r].id),
                      !.customerStore = Append(@, account.requests[r].id),
                      !.requests[r].phase = "stats"]
    /\ UNCHANGED <<currentBill, nextId, showAddCustomer>>
    /\ CustomerFrame

\* updateDataStats returned, lines 369-370, and addCustomer returns
addCustomerReturns(r) ==
    /\ account.requests[r].kind = "addCustomer"
    /\ account.requests[r].phase = "stats"
    /\ account' = [account EXCEPT
                      !.toast = lastCustomerToast(account.requests[r],
                                                  "Customer added successfully"),
                      !.requests = RemoveAt(@, r)]
    /\ SaveCustomerContinuation(account.requests[r])
    /\ CustomerFrame

\* createUserCustomer answers success = false or throws, lines 371-376, and
\* addCustomer returns
createUserCustomerFails(r, threw) ==
    /\ account.requests[r].kind = "addCustomer"
    /\ account.requests[r].phase = "service"
    /\ account' = [account EXCEPT
                      !.toast = lastCustomerToast(account.requests[r],
                                    IF threw THEN "Failed to add customer"
                                    ELSE "result.message"),
                      !.requests = RemoveAt(@, r)]
    /\ SaveCustomerContinuation(account.requests[r])
    /\ CustomerFrame

\* the select-customer step of the NewBill page with what follows it: a
\* customer of the list is selected or a new one is entered, and the draft
\* takes a bill discount
NextCustomer ==
    \/ EnterPage
    \/ \E c \in Customers : handleSelectCustomer(c)
    \/ handleAddCustomer
    \/ \E c \in NewCustomers : handleSaveCustomer(c)
    \/ \E r \in 1..Len(account.requests) : createUserCustomerSucceeds(r)
    \/ \E r \in 1..Len(account.requests) : addCustomerReturns(r)
    \/ \E r \in 1..Len(account.requests), threw \in BOOLEAN : createUserCustomerFails(r, threw)
    \/ handleAddItem
    \/ \E p \in CatalogIds : handleSelectProduct(p)
    \/ \E q \in FormQuantities, d \in FormDiscounts : handleSaveItem(q, d[1], d[2])

SpecCustomer == Init /\ [][NextCustomer]_vars

(***************************************************************************)
(* The session: the effect of EnhancedBillingProvider on [isAuthenticated, *)
(* user], src/src/index.css lines 183-194, and loadUserData, lines         *)
(* 196-226.  Signing out clears the data of the provider; the requests in  *)
(* flight are not cancelled and their continuations run when the data      *)
(* service answers.  The pages are used while the user is signed in.       *)
(***************************************************************************)
SessionFrame ==
    UNCHANGED <<nextId, pending, saveBillToast, pageVars, calcVars, effectVars, itemFormVars,
                rendererVars, callVars, showAddCustomer>>

\* the user signs out: the effect takes its else branch, lines 187-192
signOut ==
    /\ account.isAuthenticated
    /\ account' = [account EXCEPT !.isAuthenticated = FALSE, !.customers = << >>]
    /\ catalog' = [catalog EXCEPT !.products = << >>]
    /\ bills' = << >>
    /\ currentBill' = NoBill
    /\ SessionFrame

\* the user signs in: the effect calls loadUserData, which runs up to its
\* await, lines 184-186 and 196-207
signIn ==
    /\ ~account.isAuthenticated
    /\ Len(account.requests) < MaxRequests
    /\ account' = [account EXCEPT
                      !.isAuthenticated = TRUE,
                      !.requests = Append(@, AccountRequest("loadUserData", 0, << >>, "effect"))]
    /\ UNCHANGED <<catalog, bills, currentBill>>
    /\ SessionFrame

\* the four reads of loadUserData have answered, lines 209-218
loadUserDataCompletes(r) ==
    /\ account.requests[r].kind = "loadUserData"
    /\ account' = [account EXCEPT !.customers = account.customerStore,
                                  !.requests = RemoveAt(@, r)]
    /\ catalog' = [catalog EXCEPT !.products = updateSerialNumbers(catalog.store)]
    /\ bills' = account.store
    /\ UNCHANGED currentBill
    /\ SessionFrame

\* one of the reads of loadUserData throws, lines 219-221
loadUserDataFails(r) ==
    /\ account.requests[r].kind = "loadUserData"
    /\ account' = [account EXCEPT !.toast = "Failed to load your data",
                                  !.requests = RemoveAt(@, r)]
    /\ UNCHANGED <<catalog, bills, currentBill>>
    /\ SessionFrame

NextSession ==
    \/ signOut
    \/ signIn
    \/ \E r \in 1..Len(account.requests) : loadUserDataCompletes(r)
    \/ \E r \in 1..Len(account.requests) : loadUserDataFails(r)
    \/ account.isAuthenticated /\ \E c \in Customers : call_initNewBill(c)
    \/ account.isAuthenticated /\ pending = << >> /\ call_saveBill
    \/ \E i \in 1..Len(pending) : createUserBillSucceeds(i)
    \/ \E i \in 1..Len(pending) : updateDataStatsReturns(i)
    \/ account.isAuthenticated /\ \E price \in {100} : addProduct(price)
    \/ \E r \in 1..MaxRequests : productsCreated(r, {1})
    \/ account.isAuthenticated /\ \E c \in NewCustomers : addCustomer(c)
    \/ \E r \in 1..Len(account.requests) : createUserCustomerSucceeds(r)
    \/ \E r \in 1..Len(account.requests) : addCustomerReturns(r)

SpecSession == Init /\ [][NextSession]_vars

(***************************************************************************)
(* The calculator on its own: calculateBillTotals applied to every item    *)
(* list and discount parameters of the input sets.                         *)
(***************************************************************************)
InitCalc ==
    /\ InitProvider /\ InitPage /\ InitEffect /\ InitItemForm /\ IdleRenderer
    /\ calcItems \in SeqsUpTo(CalcItemPool, MaxLen)
    /\ calcType \in CalcDiscountTypes
    /\ calcValue \in CalcDiscountValues
    /\ calcResult = NoTotals
    /\ calcDone = FALSE

Compute ==
    /\ ~calcDone
    /\ calcResult' = calculateBillTotals(calcItems, calcType, calcValue)
    /\ calcDone' = TRUE
    /\ UNCHANGED <<calcItems, calcType, calcValue, providerVars, pageVars, effectVars, itemFormVars, rendererVars, catalogVars, callVars, accountVars>>

NextCalc == Compute

SpecCalc == InitCalc /\ [][NextCalc]_vars

(***************************************************************************)
(* Properties.                                                             *)
(***************************************************************************)
\* sums written as the specification states them: over the items present
RECURSIVE SumOver(_, _, _)
SumOver(items, field, i) ==
    IF i = 0 THEN 0
    ELSE SumOver(items, field, i - 1)
         + (IF items[i].kind = "item" THEN items[i][field] ELSE 0)

ItemsSubtotal(items) == SumOver(items, "subtotal", Len(items))

ItemsDiscount(items) == SumOver(items, "discountAmount", Len(items))

\* the bill-level discount as section 4.1 states it, on the base that
\* remains after the item discounts
StatedBillDiscount(items, discountType, discountValue) ==
    LET base == ItemsSubtotal(items) - ItemsDiscount(items)
    IN  IF discountValue <= 0 THEN 0
        ELSE IF discountType = "fixed"
             THEN (IF discountValue <= base THEN discountValue ELSE base)
             ELSE (base * (IF discountValue <= 100 THEN discountValue ELSE 100)) \div 100

\* C1: the total of the draft and of every bill of the history is >= 0
\* after any sequence of builder operations.
C1_TotalNeverNegative ==
    /\ currentBill.total >= 0
    /\ \A i \in 1..Len(bills) : bills[i].total >= 0

\* a saved bill whose difference subtotal - totalDiscount is negative, so
\* that only the floor keeps its total at zero
W_C1_FlooredBillSaved ==
    \E i \in 1..Len(bills) :
        /\ bills[i].subtotal - bills[i].totalDiscount < 0
        /\ bills[i].total = 0

\* C2: the stored subtotal and totalDiscount of the draft equal the sums
\* over its current items plus the bill discount of its current parameters.
C2_TotalsRecomputedFromScratch ==
    currentBill # NoBill =>
        /\ currentBill.subtotal = ItemsSubtotal(currentBill.items)
        /\ currentBill.totalDiscount =
              ItemsDiscount(currentBill.items)
              + StatedBillDiscount(currentBill.items, currentBill.billDiscountType,
                                   currentBill.billDiscountValue)

\* a draft of two items under a bill discount that takes something off
W_C2_TwoItemsWithBillDiscount ==
    /\ currentBill # NoBill
    /\ Len(currentBill.items) >= 2
    /\ currentBill.billDiscountValue > 0
    /\ currentBill.billDiscountAmount > 0
    /\ ItemsDiscount(currentBill.items) > 0

\* C3: calculateBillTotals returns billDiscountAmount = 0 for a value <= 0,
\* min(value, subtotal - itemDiscounts) for fixed, and
\* (subtotal - itemDiscounts) * min(value, 100) / 100 for percentage.
C3_BillDiscountOnRemainingBase ==
    (calcDone /\ calcType \in {"fixed", "percentage"}) =>
        calcResult.billDiscountAmount =
            StatedBillDiscount(calcItems, calcType, calcValue)

\* a percentage discount computed on a base that item discounts reduced
W_C3_PercentageOnReducedBase ==
    /\ calcDone
    /\ calcType = "percentage"
    /\ calcValue = 50
    /\ ItemsDiscount(calcItems) > 0
    /\ ItemsSubtotal(calcItems) - ItemsDiscount(calcItems) > 0
    /\ calcResult.billDiscountAmount > 0

\* C4: billDiscountAmount returned by calculateBillTotals is never negative,
\* also for a list whose item discounts exceed its subtotals.
CE_C4_BillDiscountNeverNegative ==
    calcDone => calcResult.billDiscountAmount >= 0

\* C5: whenever subtotal - totalDiscount is non-negative, the stored total
\* of the draft is exactly that difference.
C5_TotalIsDifference ==
    (currentBill # NoBill /\ currentBill.subtotal - currentBill.totalDiscount >= 0) =>
        currentBill.total = currentBill.subtotal - currentBill.totalDiscount

\* a draft whose bill discount and item discounts both take something off
\* and leave a positive total
W_C5_DiscountedPositiveTotal ==
    /\ currentBill # NoBill
    /\ currentBill.billDiscountAmount > 0
    /\ currentBill.totalDiscount > currentBill.billDiscountAmount
    /\ currentBill.total > 0
    /\ currentBill.total = currentBill.subtotal - currentBill.totalDiscount

\* an item list finalize may persist: at least one entry, and every entry an
\* item with a product reference, a positive quantity and a positive price
StructurallyValid(items) ==
    /\ Len(items) >= 1
    /\ \A i \in 1..Len(items) :
          /\ items[i].kind = "item"
          /\ items[i].product # NoProduct
          /\ items[i].quantity > 0
          /\ items[i].unitPrice > 0

\* C6: createUserBill is called, and a bill enters the history, only for a
\* draft with at least one item whose items are all structurally valid.
CE_C6_OnlyValidDraftsPersisted ==
    /\ \A i \in 1..Len(pending) : StructurallyValid(pending[i].bill.items)
    /\ \A i \in 1..Len(bills) : StructurallyValid(bills[i].items)

\* a step in which a saveBill call ends on its failure path: createUserBill
\* answered success = false or threw
FailedFinalizeStep ==
    /\ Len(pending') < Len(pending)
    /\ saveBillToast' \in {"result.message", "Failed to save bill"}

\* C7: a failed finalize leaves the draft and the bill history unchanged.
C7_FailedFinalizeKeepsDraft ==
    [][FailedFinalizeStep => (currentBill' = currentBill /\ bills' = bills)]_vars

\* a finalize has failed and the draft with its items is still there
W_C7_DraftKeptAfterFailure ==
    /\ saveBillToast \in {"result.message", "Failed to save bill"}
    /\ pending = << >>
    /\ currentBill # NoBill
    /\ Len(currentBill.items) > 0
    /\ bills = << >>

\* C8: when createUserBill answers success the draft becomes null and the
\* persisted bill is appended to the history, every earlier entry remaining.
CE_C8_SuccessAppendsOneEntry ==
    [][\A i \in 1..Len(pending) :
          (/\ pending[i].phase = "create"
           /\ Len(pending') = Len(pending)
           /\ pending'[i].phase = "stats")
          => (/\ currentBill' = NoBill
              /\ bills' = Append(bills, pending[i].bill))]_vars

\* C9: createUserBill is never awaited twice at once for the same draft.
CE_C9_OneFinalizeInFlight ==
    \A i, j \in 1..Len(pending) :
        (/\ i # j
         /\ pending[i].phase = "create"
         /\ pending[j].phase = "create")
        => pending[i].bill.id # pending[j].bill.id

\* C10: when createUserBill fails, handleFinalizeBill neither reports
\* 'Bill saved successfully' nor navigates to the bill history.
CE_C10_FailureSurfacedToPage ==
    [][FailedFinalizeStep =>
          (/\ finalizeToast' # "Bill saved successfully"
           /\ route' # "bill-history")]_vars

\* C11: initNewBill called while the draft holds at least one item leaves
\* that draft as it is.
CE_C11_InitKeepsDraftWithItems ==
    [][(/\ currentBill # NoBill
        /\ Len(currentBill.items) >= 1
        /\ nextId' # nextId)
       => currentBill' = currentBill]_vars

\* C12: a run of the cleanup of the NewBill effect never clears a draft that
\* holds at least one item.
CE_C12_CleanupSparesDraftWithItems ==
    [][(/\ effect' # effect
        /\ currentBill # NoBill
        /\ Len(currentBill.items) >= 1)
       => currentBill' = currentBill]_vars

\* a step that changes the bill discount parameters of the draft
BillDiscountStep ==
    /\ currentBill # NoBill
    /\ nextId' = nextId
    /\ <<currentBill'.billDiscountType, currentBill'.billDiscountValue>>
         # <<currentBill.billDiscountType, currentBill.billDiscountValue>>

\* C13: updateBillDiscount leaves the item sequence, the id, the bill number
\* and the customer of the draft as they were.
C13_BillDiscountTouchesNoItem ==
    [][BillDiscountStep =>
          (/\ currentBill'.items = currentBill.items
           /\ currentBill'.id = currentBill.id
           /\ currentBill'.billNumber = currentBill.billNumber
           /\ currentBill'.customer = currentBill.customer)]_vars

\* a bill discount has been set on a draft that holds two items
W_C13_DiscountSetOnTwoItems ==
    /\ currentBill # NoBill
    /\ Len(currentBill.items) = 2
    /\ \A i \in 1..2 : currentBill.items[i].kind = "item"
    /\ currentBill.billDiscountType = "percentage"
    /\ currentBill.billDiscountValue = 10
    /\ currentBill.billDiscountAmount > 0

\* C14: after any sequence of item saves through the page, every entry of the
\* draft's item list is an item with a product, quantity > 0 and unitPrice > 0.
CE_C14_DraftHoldsOnlyValidItems ==
    \A i \in 1..Len(currentBill.items) :
        /\ currentBill.items[i].kind = "item"
        /\ currentBill.items[i].product # NoProduct
        /\ currentBill.items[i].quantity > 0
        /\ currentBill.items[i].unitPrice > 0

\* the derived amounts of an item agree with its quantity, price and discount
AmountsConsistent(item) ==
    /\ item.subtotal = item.unitPrice * item.quantity
    /\ item.discountAmount <= item.subtotal
    /\ item.total = item.subtotal - item.discountAmount

\* C15: every item the form would submit, and every item handleSaveItem has
\* stored in the draft, has subtotal = unitPrice * quantity, discountAmount <=
\* subtotal and total = subtotal - discountAmount.
C15_SubmittedAmountsConsistent ==
    /\ (FormSettled /\ itemForm.mounted /\ formValid(itemForm))
          => AmountsConsistent(formItem(itemForm))
    /\ \A i \in 1..Len(currentBill.items) :
          currentBill.items[i].kind = "item" => AmountsConsistent(currentBill.items[i])

\* the form held invalid input, is valid again with a discount that takes the
\* whole subtotal, and the draft already holds an item the form submitted
W_C15_ValidAgainAfterInvalidEdit ==
    /\ FormSettled /\ itemForm.mounted /\ itemForm.sawInvalid
    /\ formValid(itemForm)
    /\ itemForm.quantity = 3 /\ itemForm.subtotal = 300
    /\ itemForm.discountType = "fixed" /\ itemForm.discountValue = 150
    /\ Len(currentBill.items) = 1
    /\ currentBill.items[1].discountAmount = currentBill.items[1].subtotal
    /\ currentBill.items[1].subtotal = 100

\* the item of the worked scenario: quantity 3, unit price 100, fixed
\* discount 50
ScenarioItem == Item(1, 3, 100, "fixed", 50, 300, 50, 250)

\* C16: a draft holding only the scenario item has subtotal 300 and, without
\* a bill discount, total 250; with the bill discount ('percentage', 10) it
\* has billDiscountAmount 25, totalDiscount 75 and total 225.
C16_WorkedScenario ==
    (currentBill # NoBill /\ currentBill.items = <<ScenarioItem>>) =>
        /\ currentBill.subtotal = 300
        /\ currentBill.billDiscountValue = 0 =>
              (/\ currentBill.billDiscountAmount = 0
               /\ currentBill.totalDiscount = 50
               /\ currentBill.total = 250)
        /\ (/\ currentBill.billDiscountType = "percentage"
            /\ currentBill.billDiscountValue = 10) =>
              (/\ currentBill.billDiscountAmount = 25
               /\ currentBill.totalDiscount = 75
               /\ currentBill.total = 225)

\* updateBillDiscount('percentage', 10) has been applied to the scenario draft
W_C16_ScenarioWithBillDiscount ==
    /\ currentBill # NoBill
    /\ currentBill.items = <<ScenarioItem>>
    /\ currentBill.billDiscountType = "percentage"
    /\ currentBill.billDiscountValue = 10
    /\ currentBill.total = 225

\* a text contains a word
Contains(t, w) == \E i \in 1..Len(t) : t[i] = w

\* the text made of the given words with one space between them
RECURSIVE Phrase(_)
Phrase(ws) == IF Len(ws) <= 1 THEN ws ELSE <<Head(ws), " ">> \o Phrase(Tail(ws))

\* C17: numberToWords groups the Indian way, writes a scale word exactly for
\* the groups that are not zero, writes 'Zero' only for 0 and leaves no
\* leading, trailing or doubled space.
C17_ScaleWordsOnlyForNonZeroGroups ==
    words.called =>
        LET n == words.num
            t == words.result
        IN  /\ n = Num(0, 0) => t = Phrase(<<"Zero">>)
            /\ n = Num(0, 19) => t = Phrase(<<"Nineteen">>)
            /\ n = Num(0, 100) => t = Phrase(<<"One", "Hundred">>)
            /\ n = Num(0, 1000) => t = Phrase(<<"One", "Thousand">>)
            /\ n = Num(0, 100000) => t = Phrase(<<"One", "Lakh">>)
            /\ n = Num(1, 0) => t = Phrase(<<"One", "Crore">>)
            /\ n = Num(0, 1000000) => t = Phrase(<<"Ten", "Lakh">>)
            /\ Contains(t, "Crore") <=> n.crore > 0
            /\ Contains(t, "Lakh") <=> n.rest \div 100000 > 0
            /\ Contains(t, "Thousand") <=> (n.rest % 100000) \div 1000 > 0
            /\ Contains(t, "Zero") => n = Num(0, 0)
            /\ t # << >> => (t[1] # " " /\ t[Len(t)] # " ")
            /\ \A i \in 1..(Len(t) - 1) : ~(t[i] = " " /\ t[i + 1] = " ")

\* ten lakh has been put into words
W_C17_TenLakh ==
    /\ words.called
    /\ words.num = Num(0, 1000000)
    /\ words.result = <<"Ten", " ", "Lakh">>

\* the words numberToWords is made of
Vocabulary ==
    {ones[i] : i \in 2..10} \cup {teens[i] : i \in 1..10} \cup {tens[i] : i \in 3..10}
    \cup {"Zero", "Hundred", "Thousand", "Lakh", "Crore"}

\* C18: for every non-negative integer, also from 10^10, the result of
\* numberToWords consists of words of its tables and scale words only.
CE_C18_OnlyTableWords ==
    words.called =>
        \A i \in 1..Len(words.result) : words.result[i] \in Vocabulary \cup {" "}

\* a required structure of the render call is missing
RequiredMissing ==
    \/ ~render.bill.present
    \/ ~render.businessInfo.present
    \/ itemsMissingOrEmpty(render.bill)

\* C19: generateA5BillPDF throws, returning no document, exactly when the
\* bill, the issuer or a non-empty item list is missing, and then
\* generateAndDownloadPDF exports nothing.
CE_C19_FailsExactlyOnMissingStructure ==
    render.called =>
        /\ ~render.doc.ok <=> RequiredMissing
        /\ RequiredMissing => render.export.exported = "none"

\* C20: with bill, issuer and a non-empty item list present, generateA5BillPDF
\* returns a document whatever optional field is missing.
CE_C20_OptionalFieldsNeverFail ==
    (render.generated /\ ~RequiredMissing) => render.doc.ok

\* C21: when the requested export mode has been attempted and has failed,
\* generateAndDownloadPDF attempts the other mode as well, and it rejects
\* only after both modes have failed.
CE_C21_FailedExportFallsBack ==
    (render.exported /\ render.export.attempts # << >>) =>
        /\ render.export.exported # render.action =>
              {render.export.attempts[i] : i \in 1..Len(render.export.attempts)}
                  = {"download", "print"}
        /\ render.export.rejected => Len(render.export.attempts) = 2

\* C22: for a bill produced by the builder the invoice has a discount row
\* exactly when the item discount amounts sum to more than 0 or the bill
\* discount amount is more than 0, and the row shows their sum, which is the
\* bill's totalDiscount.
CE_C22_DiscountRowShowsTotalDiscount ==
    (render.generated /\ render.doc.ok) =>
        LET itemDiscounts == SumDiscountAmount(render.draft.items)
            row == render.doc.discountRow
        IN  /\ row.emitted <=> (itemDiscounts > 0 \/ render.draft.billDiscountAmount > 0)
            /\ row.emitted =>
                  /\ row.amount = itemDiscounts + render.draft.billDiscountAmount
                  /\ row.amount = render.draft.totalDiscount

\* C23: the item table of every rendered bill has max(number of items, 6)
\* body rows, item rows and empty rows together, also when items lack a
\* product.
CE_C23_TableHasMinimumHeight ==
    (render.generated /\ render.doc.ok) =>
        /\ render.doc.itemRows + render.doc.emptyRows
              = Max(Len(render.bill.items.list), minRows)
        /\ Len(render.bill.items.list) <= minRows
              => render.doc.tableHeight = rowHeight * minRows

\* C24: a drawn row shows item.total whenever the item has a total, also a
\* total of 0, and quantity * unitPrice only when the item has none.
CE_C24_LineAmountIsItemTotal ==
    (render.generated /\ render.doc.ok) =>
        \A i \in 1..Len(render.doc.rows) :
            LET item == render.bill.items.list[i]
                row == render.doc.rows[i]
            IN  row.drawn =>
                   row.amount = IF item.total.present THEN item.total.value
                                ELSE row.quantity * row.unitPrice

\* C25: in every state the serial numbers of the product list are exactly
\* 1..N, without duplicates or gaps, and follow the creation times.
CE_C25_SerialNumbersDense ==
    LET products == catalog.products
    IN  /\ {products[i].sno : i \in 1..Len(products)} = 1..Len(products)
        /\ \A i, j \in 1..Len(products) :
              products[i].createdAt < products[j].createdAt
                  => products[i].sno < products[j].sno

\* C26: a step that changes the catalog (a product added, updated, deleted
\* or the list refreshed) changes neither the draft nor any bill of the
\* history: items and totals stay as they were.
C26_BillsStableUnderCatalogChanges ==
    [][catalog'.products # catalog.products
          => (currentBill' = currentBill /\ bills' = bills)]_vars

\* the history holds a bill with an item sold at a price the catalog no
\* longer has for its product
W_C26_PriceChangedAfterSale ==
    \E b \in 1..Len(bills) : \E i \in 1..Len(bills[b].items) :
        \E p \in 1..Len(catalog.products) :
            /\ catalog.products[p].id = bills[b].items[i].product.id
            /\ catalog.products[p].price # bills[b].items[i].unitPrice
            /\ bills[b].items[i].product.price = bills[b].items[i].unitPrice

\* the lists with the items of a list in every order
PermutedLists(items) ==
    LET n == Len(items)
    IN  { [i \in 1..n |-> items[f[i]]] :
            f \in { g \in [1..n -> 1..n] : \A i, j \in 1..n : g[i] = g[j] => i = j } }

\* C27: calculateBillTotals returns the same result for every permutation of
\* its item list: the subtotal of a list is the subtotal of the list in any
\* other order.
CE_C27_SameResultForEveryPermutation ==
    calcDone =>
        \A permuted \in PermutedLists(calcItems) :
            reduceSubtotal(permuted, ZeroDouble) = calcResult.subtotal

\* C28: an operation on a missing draft reports a failure to its caller:
\* after addItemToBill, updateBillItem, removeBillItem, updateBillDiscount or
\* saveBill was called while currentBill was null, what the caller got is an
\* error, raised or as a rejected promise.
CE_C28_MissingDraftIsReported ==
    (report.operation # "" /\ ~report.draft) =>
        report.outcome \in {"TypeError", "StateError", "rejected"}

AddAppends(bill) ==
    \A item \in BuilderItemPool :
        addItemToBill(bill, item).items = Append(bill.items, item)

UpdateReplacesOne(bill) ==
    \A i \in 0..(Len(bill.items) - 1), item \in BuilderItemPool :
        updateBillItem(bill, i, item).items = [bill.items EXCEPT ![i + 1] = item]

RemoveDropsOne(bill) ==
    \A i \in 0..(Len(bill.items) - 1) :
        removeBillItem(bill, i).items = RemoveAt(bill.items, i + 1)

RemoveOutOfRangeKeeps(bill) ==
    \A i \in {-1} \cup (Len(bill.items)..MaxItems) :
        removeBillItem(bill, i).items = bill.items

\* C29: the item list edits have list semantics: on a draft with n items,
\* addItemToBill gives the old items followed by the new one, updateBillItem
\* at an index in range gives the old items with that position replaced,
\* removeBillItem at an index in range gives the old items without that
\* position, and removeBillItem at an index out of range gives the old items.
CE_C29_EditsHaveListSemantics ==
    currentBill # NoBill =>
        /\ AddAppends(currentBill)
        /\ UpdateReplacesOne(currentBill)
        /\ RemoveDropsOne(currentBill)
        /\ RemoveOutOfRangeKeeps(currentBill)

CE_C31_SavedEntryHoldsPendingEdits ==
    [][(currentBill # NoBill /\ currentBill' = NoBill /\ bills' # bills /\ bills' # << >>)
          => bills'[Len(bills')] = currentBill]_vars

\* no saveBill and no deleteBill is waiting for the data service or for
\* updateDataStats
HistorySettled == pending = << >> /\ account.requests = << >>

\* C32: the bill history loses no update under overlapping requests: once
\* every saveBill and deleteBill has completed, the history holds every bill
\* that was saved and not deleted, and none of the bills that were deleted,
\* that is, exactly the bills the data service holds.
CE_C32_HistoryMatchesService ==
    HistorySettled => BillIds(bills) = BillIds(account.store)

\* an addCustomer request has just failed: the data service answered
\* success = false or threw
AddCustomerFailed ==
    \E r \in 1..Len(account.requests) :
        /\ account.requests[r].kind = "addCustomer"
        /\ account.requests[r].phase = "service"
        /\ account'.requests = RemoveAt(account.requests, r)

\* C36: a draft is only created for a customer the data service has
\* persisted: the step in which addCustomer fails during handleSaveCustomer
\* starts no draft, so currentBill is what it was before (null).
CE_C36_FailedCustomerStartsNoDraft ==
    [][AddCustomerFailed => currentBill' = currentBill]_vars

\* C33: while the user is not authenticated the products, the customers, the
\* bills and the draft of the provider are empty, whatever request was in
\* flight when the user signed out and completed afterwards.
CE_C33_SignedOutStaysEmpty ==
    ~account.isAuthenticated =>
        /\ catalog.products = << >>
        /\ account.customers = << >>
        /\ bills = << >>
        /\ currentBill = NoBill

\* C34: the invoice of a bill the builder produced adds up: the sum of the
\* line amounts of the item table minus the amount of the discount row (0
\* when there is no such row) is the amount of the total row.
CE_C34_InvoiceAddsUp ==
    (render.generated /\ render.doc.ok) =>
        render.doc.itemTotal
            - (IF render.doc.discountRow.emitted THEN render.doc.discountRow.amount ELSE 0)
          = render.doc.total

\* C35: for a bill with 1 to 6 items every element of the invoice is on the
\* page and the sections do not overlap: the running cursor ends, with the
\* 'Authorised Signatory' line, at y <= 297, and the footer at
\* pageHeight - 25 lies below the last line of the bank details.
CE_C35_SectionsFitThePage ==
    (render.generated /\ render.doc.ok /\ Len(render.bill.items.list) \in 1..minRows) =>
        /\ render.doc.layout.signatoryY <= pageHeight
        /\ render.doc.layout.footerY > render.doc.layout.bankLastY

\* C37: every finalize that sets isSaving is followed by a state in which
\* isSaving is false again, on the success and on the failure outcome alike,
\* provided the data service answers.
C37_SavingIsEventuallyCleared == isSaving ~> ~isSaving

\* a finalize whose createUserBill failed has returned and isSaving is false
W_C37_FailedFinalizeCleared ==
    /\ saveBillToast \in {"result.message", "Failed to save bill"}
    /\ finalizeToast = "Bill saved successfully"
    /\ pending = << >>
    /\ ~isSaving

\* the integers numberToWords is compared on: below 10^10, every group at
\* its boundaries and the last three digits also dense from 0 to 30
SupportedRange ==
    {Num(c, l * 100000 + t * 1000 + u) :
        c \in WordsCrores \ {1000}, l \in WordsLakhs, t \in WordsThousands,
        u \in WordsUnits \cup (0..30)}

\* C38: numberToWords is injective below 10^10: no other integer of the
\* range has the words of the argument.  Every word of a result is followed
\* by a blank or ends the text, so two results are the same string exactly
\* when they are the same sequence of pieces.
C38_NumberToWordsInjective ==
    (words.called /\ words.num \in SupportedRange) =>
        /\ \A other \in SupportedRange \ {words.num} :
              numberToWords(other) # words.result
        /\ \A i \in 1..Len(words.result) :
              words.result[i] # " " =>
                  (words.result[i] # "" /\ (i = Len(words.result) \/ words.result[i + 1] = " "))

\* numberToWords has answered for one lakh, whose words differ from those of
\* 1 only by the scale word
W_C38_OneLakh ==
    /\ words.called
    /\ words.num = Num(0, 100000)
    /\ words.result = <<"One", " ", "Lakh">>

====
